---- MODULE Spec2Model ----
(***************************************************************************)
(* Session manager of chrome-devtools-mcp: McpContext (page registry,      *)
(* isolated-context registry, per-context focus map, global selected page, *)
(* accessibility snapshots with sticky uids) and the tool mutex of the     *)
(* server's tool handler.                                                  *)
(*                                                                         *)
(* Pages are driver handles 1..MaxPages, never reused.  Browser contexts   *)
(* are DefaultCtx and the isolated contexts 1..drvContexts.  A JS Map is a *)
(* function whose DOMAIN is the key set.  The driver (puppeteer) is the    *)
(* environment: drvPages is what browser.pages() enumerates, pageCtx is    *)
(* page.browserContext(), a page is closed iff it is not in drvPages.      *)
(***************************************************************************)
EXTENDS Integers, Sequences, FiniteSets, TLC

\* ------------------------------------------------------------------ bounds
MaxPages == 3
MaxCtx == 2
MaxSnapPages == 2
MaxSnapshots == 3
MaxKeys == 2
MaxCmds == 3
MaxRuns == 3
MaxEmuPages == 2
MaxDialogPages == 2
\* the session is disposed only while its page ids are below this
MaxDisposeId == 4

\* --------------------------------------------------------------- constants
NoPage == 0
DefaultCtx == 0
FirstId == 1
UndefinedId == -1
DEFAULT_TIMEOUT == 5000
NAVIGATION_TIMEOUT == 10000
DriverTimeout == 0
NoRate == -1
NullRate == 0
NoName == "undefined"
AgentNames == {"ctx-a", "isolated-context-1"}
GenNames == <<"isolated-context-1", "isolated-context-2", "isolated-context-3",
              "isolated-context-4", "isolated-context-5", "isolated-context-6",
              "isolated-context-7", "isolated-context-8">>
Keys == 1..MaxKeys
NoUid == <<>>
NoSnapshot == [snapshotId |-> 0, nodes |-> <<>>]
Null == "null"
\* McpPage.#dialog before a dialog is captured and after clearDialog()
NoDialog == "undefined"
\* EmulationSettings {}: no key is present
NoSettings == [networkConditions |-> NoName, cpuThrottlingRate |-> NoRate,
               geolocation |-> NoName]
\* keys of puppeteer's PredefinedNetworkConditions
PredefinedNetworkConditions == {"Slow 3G", "Fast 3G", "Slow 4G", "Fast 4G"}
\* timeouts of a page that the manager has not set
DriverTimeouts == [default |-> DriverTimeout, navigation |-> DriverTimeout]

VARIABLES
  drvPages,               \* browser.pages(): open page handles, in order
  pageCtx,                \* page.browserContext() of every handle handed out
  drvContexts,            \* number of isolated browser contexts in the browser
  listeners,              \* pages with a 'dialog' listener of a McpPage attached
  pageTimeouts,           \* default and navigation timeout set on every page
  emulatedFocus,          \* pages whose latest emulateFocusedPage request was (true)
  pages,                  \* #pages
  mcpPages,               \* #mcpPages: Map<Page, McpPage>
  selectedPage,           \* #selectedPage
  focusedPagePerContext,  \* #focusedPagePerContext: Map<BrowserContext, Page>
  nextPageId,             \* #nextPageId
  isolatedContexts,       \* #isolatedContexts: Map<string, BrowserContext>
  nextIsolatedContextId,  \* #nextIsolatedContextId
  nextSnapshotId,         \* #nextSnapshotId
  focusReqs,              \* emulateFocusedPage calls issued by the last operation
  lastOp,                 \* the last operation, its arguments and its outcome
  locked,                 \* Mutex.#locked
  acquirers,              \* Mutex.#acquirers (FIFO of waiting commands)
  pc,                     \* position of every command in the tool handler
  runs,                   \* commands started so far
  retired,                \* uids of nodes that a later snapshot of their page lacked
  minted,                 \* every (page, key, uid) a snapshot has held so far
  log,                    \* gate events of the commands, in the order they happened
  createdAs,              \* the context name every page made by newPage(_, name) was asked for
  dialogs                 \* #dialog of the McpPage last constructed for a page, where set

mvars == <<pages, mcpPages, selectedPage, focusedPagePerContext, nextPageId,
           isolatedContexts, nextIsolatedContextId, nextSnapshotId, dialogs>>
dvars == <<drvPages, pageCtx, drvContexts, listeners, pageTimeouts, emulatedFocus>>
gvars == <<locked, acquirers, pc, runs, log>>
vars == <<drvPages, pageCtx, drvContexts, listeners, pageTimeouts, emulatedFocus,
          pages, mcpPages, selectedPage,
          focusedPagePerContext, nextPageId, isolatedContexts,
          nextIsolatedContextId, nextSnapshotId, focusReqs, lastOp,
          locked, acquirers, pc, runs, retired, minted, log, createdAs, dialogs>>

\* ----------------------------------------------------------------- helpers
Range(s) == {s[i] : i \in DOMAIN s}
Without(s, x) == SelectSeq(s, LAMBDA y : y # x)
MapGet(m, k, dflt) == IF k \in DOMAIN m THEN m[k] ELSE dflt
MapSet(m, k, v) == [x \in DOMAIN m \cup {k} |-> IF x = k THEN v ELSE m[x]]
MapDelete(m, k) == [x \in DOMAIN m \ {k} |-> m[x]]
EmptyMap == [x \in {} |-> 0]
IsClosed(open, p) == p \notin Range(open)

\* sel is the selected pointer the operation started from
Op(op, page, id, uid, res, named) ==
  [op |-> op, page |-> page, id |-> id, uid |-> uid, res |-> res, named |-> named,
   sel |-> selectedPage]

\* The manager's fields as one record, so that operations compose.
M == [pages |-> pages, mcpPages |-> mcpPages, selectedPage |-> selectedPage,
      focused |-> focusedPagePerContext, nextPageId |-> nextPageId,
      iso |-> isolatedContexts, nextIso |-> nextIsolatedContextId,
      listeners |-> listeners, timeouts |-> pageTimeouts, reqs |-> <<>>,
      res |-> "ok"]

\* the pages with focus emulation on after the requests reqs, in their order
ApplyFocusReqs(on, reqs) ==
  LET asked == {reqs[i].page : i \in DOMAIN reqs}
      latest(p) == reqs[CHOOSE i \in DOMAIN reqs :
                          /\ reqs[i].page = p
                          /\ \A j \in DOMAIN reqs : reqs[j].page = p => j <= i]
  IN (on \ asked) \cup {p \in asked : latest(p).enabled}

\* the pages for which the step to records mp runs new McpPage(page, id)
ConstructedFor(mp) ==
  {p \in DOMAIN mp : p \notin DOMAIN mcpPages \/ mcpPages[p].id # mp[p].id}

SetM(m) ==
  /\ emulatedFocus' = ApplyFocusReqs(emulatedFocus, m.reqs)
  /\ dialogs' = [p \in DOMAIN dialogs \ ConstructedFor(m.mcpPages) |-> dialogs[p]]
  /\ pages' = m.pages
  /\ mcpPages' = m.mcpPages
  /\ selectedPage' = m.selectedPage
  /\ focusedPagePerContext' = m.focused
  /\ nextPageId' = m.nextPageId
  /\ isolatedContexts' = m.iso
  /\ nextIsolatedContextId' = m.nextIso
  /\ listeners' = m.listeners
  /\ pageTimeouts' = m.timeouts
  /\ focusReqs' = m.reqs

\* new McpPage(page, id)
NewMcpPage(id, name) ==
  [id |-> id, isolatedContextName |-> name, textSnapshot |-> NoSnapshot,
   uniqueBackendNodeIdToMcpId |-> EmptyMap, emulationSettings |-> NoSettings]

\* McpPage.dispose() that leaves the dialog handler on the page
disposeKeepsHandler(ls, page) == ls

\* McpPage.dispose(): page.off('dialog', handler), where ls are the pages that
\* have the handler of their record attached; off() of a handler that is not
\* attached does nothing
dispose(ls, page) == ls \ {page}

\* mcpPage.dispose() for the record of every page in ps
RECURSIVE disposeEach(_, _)
disposeEach(ls, ps) ==
  IF ps = {} THEN ls
  ELSE LET p == CHOOSE x \in ps : TRUE
       IN disposeEach(dispose(ls, p), ps \ {p})

\* McpPage id of a page ("?" in messages is modelled as 0)
IdOf(mp, p) == IF p \in DOMAIN mp THEN mp[p].id ELSE 0

\* ---------------------------------------------------------------- selection
\* getSelectedPage without the isClosed() test
SelectedPageErrorNoClosedTest(sel, open) ==
  IF sel = NoPage THEN "NoPageSelected" ELSE "ok"

\* getSelectedPage(): the error it throws, or "ok"
SelectedPageError(sel, open) ==
  IF sel = NoPage THEN "NoPageSelected"
  ELSE IF IsClosed(open, sel) THEN "SelectedPageClosed"
  ELSE "ok"

\* #getSelectedMcpPage(): #getMcpPage(getSelectedPage()), the error or "ok"
SelectedMcpPageError(m, open) ==
  IF SelectedPageError(m.selectedPage, open) # "ok"
  THEN SelectedPageError(m.selectedPage, open)
  ELSE IF m.selectedPage \notin DOMAIN m.mcpPages THEN "NoMcpPage"
  ELSE "ok"

\* #updateSelectedPageTimeouts(): getSelectedPage(), then the getters of the
\* selected page's record (#requestPage is never set by this server)
UpdateTimeoutsError(m, open) == SelectedMcpPageError(m, open)

\* getNetworkMultiplierFromString(condition), in tenths: 2.5 is 25
getNetworkMultiplierFromString(condition) ==
  CASE condition = "Fast 4G" -> 10
    [] condition = "Slow 4G" -> 25
    [] condition = "Fast 3G" -> 50
    [] condition = "Slow 3G" -> 100
    [] OTHER -> 10

\* McpPage.networkConditions: emulationSettings.networkConditions ?? null
networkConditions(mcpPage) ==
  IF mcpPage.emulationSettings.networkConditions = NoName THEN Null
  ELSE mcpPage.emulationSettings.networkConditions

\* McpPage.cpuThrottlingRate: emulationSettings.cpuThrottlingRate ?? 1
cpuThrottlingRate(mcpPage) ==
  IF mcpPage.emulationSettings.cpuThrottlingRate = NoRate THEN 1
  ELSE mcpPage.emulationSettings.cpuThrottlingRate

\* McpPage.geolocation: emulationSettings.geolocation ?? null
geolocation(mcpPage) ==
  IF mcpPage.emulationSettings.geolocation = NoName THEN Null
  ELSE mcpPage.emulationSettings.geolocation

\* the two timeouts computed from the settings of record mcpPage
TimeoutsFor(mcpPage) ==
  [default |-> DEFAULT_TIMEOUT * cpuThrottlingRate(mcpPage),
   navigation |-> (NAVIGATION_TIMEOUT
                     * getNetworkMultiplierFromString(networkConditions(mcpPage)))
                  \div 10]

\* #updateSelectedPageTimeouts(): the timeouts of the selected page are set
\* from the settings of the selected page's record
updateSelectedPageTimeouts(m, open) ==
  IF SelectedMcpPageError(m, open) # "ok"
  THEN [m EXCEPT !.res = SelectedMcpPageError(m, open)]
  ELSE [m EXCEPT !.timeouts = MapSet(@, m.selectedPage,
                                     TimeoutsFor(m.mcpPages[m.selectedPage]))]

\* selectPage that keeps an existing focus-map entry of the context
selectPageKeepsEntry(m, open, ctxOf, newPage) ==
  LET ctx == ctxOf[newPage]
      m1 == [m EXCEPT !.focused = IF ctx \in DOMAIN m.focused THEN m.focused
                                  ELSE MapSet(m.focused, ctx, newPage),
                      !.selectedPage = newPage]
      err == UpdateTimeoutsError(m1, open)
  IN [m1 EXCEPT !.res = err,
                !.reqs = IF err = "ok"
                         THEN Append(m.reqs, [page |-> newPage, enabled |-> TRUE])
                         ELSE m.reqs]

\* selectPage that defocuses the previously selected page, whatever its context
selectPageDefocusesSelected(m, open, ctxOf, newPage) ==
  LET ctx == ctxOf[newPage]
      oldFocused == m.selectedPage
      reqs1 == IF oldFocused # NoPage /\ oldFocused # newPage
                  /\ ~IsClosed(open, oldFocused)
               THEN Append(m.reqs, [page |-> oldFocused, enabled |-> FALSE])
               ELSE m.reqs
      m1 == [m EXCEPT !.focused = MapSet(m.focused, ctx, newPage),
                      !.selectedPage = newPage]
      err == UpdateTimeoutsError(m1, open)
  IN [m1 EXCEPT !.res = err,
                !.reqs = IF err = "ok"
                         THEN Append(reqs1, [page |-> newPage, enabled |-> TRUE])
                         ELSE reqs1]

\* selectPage that sends no clear-focus request
selectPageNoDefocus(m, open, ctxOf, newPage) ==
  LET ctx == ctxOf[newPage]
      m1 == [m EXCEPT !.focused = MapSet(m.focused, ctx, newPage),
                      !.selectedPage = newPage]
      err == UpdateTimeoutsError(m1, open)
  IN [m1 EXCEPT !.res = err,
                !.timeouts = updateSelectedPageTimeouts(m1, open).timeouts,
                !.reqs = IF err = "ok"
                         THEN Append(m.reqs, [page |-> newPage, enabled |-> TRUE])
                         ELSE m.reqs]

\* selectPage that also defocuses a previous holder that is closed
selectPageDefocusesClosed(m, open, ctxOf, newPage) ==
  LET ctx == ctxOf[newPage]
      oldFocused == MapGet(m.focused, ctx, NoPage)
      reqs1 == IF oldFocused # NoPage /\ oldFocused # newPage
               THEN Append(m.reqs, [page |-> oldFocused, enabled |-> FALSE])
               ELSE m.reqs
      m1 == [m EXCEPT !.focused = MapSet(m.focused, ctx, newPage),
                      !.selectedPage = newPage]
      err == UpdateTimeoutsError(m1, open)
  IN [m1 EXCEPT !.res = err,
                !.timeouts = updateSelectedPageTimeouts(m1, open).timeouts,
                !.reqs = IF err = "ok"
                         THEN Append(reqs1, [page |-> newPage, enabled |-> TRUE])
                         ELSE reqs1]

\* selectPage that tests the page first and touches nothing when it fails
selectPageAllOrNothing(m, open, ctxOf, newPage) ==
  LET ctx == ctxOf[newPage]
      oldFocused == MapGet(m.focused, ctx, NoPage)
      m1 == [m EXCEPT !.focused = MapSet(m.focused, ctx, newPage),
                      !.selectedPage = newPage]
      err == UpdateTimeoutsError(m1, open)
  IN IF err # "ok" THEN [m EXCEPT !.res = err]
     ELSE [m1 EXCEPT !.timeouts = updateSelectedPageTimeouts(m1, open).timeouts,
                     !.reqs = (IF oldFocused # NoPage /\ oldFocused # newPage
                                  /\ ~IsClosed(open, oldFocused)
                               THEN Append(m.reqs, [page |-> oldFocused, enabled |-> FALSE])
                               ELSE m.reqs)
                              \o <<[page |-> newPage, enabled |-> TRUE]>>]

\* selectPage(newPage), with ctx = newPage.browserContext()
selectPage(m, open, ctxOf, newPage) ==
  LET ctx == ctxOf[newPage]
      oldFocused == MapGet(m.focused, ctx, NoPage)
      reqs1 == IF oldFocused # NoPage /\ oldFocused # newPage
                  /\ ~IsClosed(open, oldFocused)
               THEN Append(m.reqs, [page |-> oldFocused, enabled |-> FALSE])
               ELSE m.reqs
      m1 == [m EXCEPT !.focused = MapSet(m.focused, ctx, newPage),
                      !.selectedPage = newPage]
      err == UpdateTimeoutsError(m1, open)
  IN [m1 EXCEPT !.res = err,
                !.timeouts = updateSelectedPageTimeouts(m1, open).timeouts,
                !.reqs = IF err = "ok"
                         THEN Append(reqs1, [page |-> newPage, enabled |-> TRUE])
                         ELSE reqs1]

\* getPageById(pageId): the page, or NoPage when it throws 'No page found'
getPageById(m, pageId) ==
  LET hits == {i \in DOMAIN m.pages :
                 m.pages[i] \in DOMAIN m.mcpPages
                 /\ m.mcpPages[m.pages[i]].id = pageId}
  IN IF hits = {} THEN NoPage
     ELSE m.pages[CHOOSE i \in hits : \A j \in hits : i <= j]

\* resolvePageById that returns the selected page whatever the id
resolvePageByIdIgnoresId(m, open, pageId) ==
  IF SelectedPageError(m.selectedPage, open) # "ok"
  THEN [page |-> NoPage, res |-> SelectedPageError(m.selectedPage, open)]
  ELSE [page |-> m.selectedPage, res |-> "ok"]

\* resolvePageById(pageId?): the page it returns, or the error it throws
resolvePageById(m, open, pageId) ==
  IF pageId = UndefinedId
  THEN IF SelectedPageError(m.selectedPage, open) # "ok"
       THEN [page |-> NoPage, res |-> SelectedPageError(m.selectedPage, open)]
       ELSE [page |-> m.selectedPage, res |-> "ok"]
  ELSE IF getPageById(m, pageId) = NoPage
       THEN [page |-> NoPage, res |-> "NotFound"]
       ELSE [page |-> getPageById(m, pageId), res |-> "ok"]

\* ------------------------------------------------------------------ refresh
\* #getAllPages(): auto-discovery of unnamed contexts, in browserContexts() order
RECURSIVE Discover(_, _, _, _, _, _)
Discover(iso, next, c2n, known, c, n) ==
  IF c > n THEN [iso |-> iso, nextIso |-> next, c2n |-> c2n]
  ELSE IF c \in known THEN Discover(iso, next, c2n, known, c + 1, n)
  ELSE Discover(MapSet(iso, GenNames[next], c), next + 1,
                MapSet(c2n, c, GenNames[next]), known, c + 1, n)

getAllPages(m, nctx) ==
  LET contextToName ==
        [c \in {m.iso[k] : k \in DOMAIN m.iso} |->
           CHOOSE k \in DOMAIN m.iso : m.iso[k] = c]
      knownContexts == {m.iso[k] : k \in DOMAIN m.iso}
  IN Discover(m.iso, m.nextIso, contextToName, knownContexts, 1, nctx)

\* the name a page reports: contextToName.get(ctx), kept only if truthy
NameOfCtx(c2n, c) ==
  IF c \in DOMAIN c2n /\ c2n[c] # "" THEN c2n[c] ELSE NoName

\* position of page p among the pages of allPages that have no record yet
RECURSIVE NewRank(_, _, _)
NewRank(allPages, mp, i) ==
  IF i = 0 THEN 0
  ELSE NewRank(allPages, mp, i - 1)
       + (IF allPages[i] \notin DOMAIN mp THEN 1 ELSE 0)

\* createPagesSnapshot that keeps the records of pages no longer enumerated
createPagesSnapshotNoPrune(m, allPages, ctxOf, nctx) ==
  LET g == getAllPages(m, nctx)
      current == Range(allPages)
      nNew == NewRank(allPages, m.mcpPages, Len(allPages))
      idx(p) == CHOOSE i \in DOMAIN allPages : allPages[i] = p
      withNew == [p \in DOMAIN m.mcpPages \cup current |->
                    IF p \in DOMAIN m.mcpPages
                    THEN IF p \in current
                         THEN [m.mcpPages[p] EXCEPT
                                 !.isolatedContextName = NameOfCtx(g.c2n, ctxOf[p])]
                         ELSE m.mcpPages[p]
                    ELSE NewMcpPage(m.nextPageId
                                      + NewRank(allPages, m.mcpPages, idx(p)) - 1,
                                    NameOfCtx(g.c2n, ctxOf[p]))]
      pruned == withNew
      focusKept == {c \in DOMAIN m.focused : m.focused[c] \in current}
      m1 == [m EXCEPT !.iso = g.iso, !.nextIso = g.nextIso,
                      !.mcpPages = pruned,
                      !.nextPageId = m.nextPageId + nNew,
                      !.listeners = disposeEach(m.listeners, DOMAIN m.mcpPages \ current)
                                       \cup (current \ DOMAIN m.mcpPages),
                      !.focused = [c \in focusKept |-> m.focused[c]],
                      !.pages = allPages]
      m2 == IF (m1.selectedPage = NoPage \/ m1.selectedPage \notin Range(m1.pages))
               /\ Len(m1.pages) > 0
            THEN selectPage(m1, allPages, ctxOf, m1.pages[1])
            ELSE m1
      g2 == getAllPages(m2, nctx)
  IN [m2 EXCEPT !.iso = g2.iso, !.nextIso = g2.nextIso]

\* createPagesSnapshot that keeps a selected page that is no longer listed
createPagesSnapshotNoFallback(m, allPages, ctxOf, nctx) ==
  LET g == getAllPages(m, nctx)
      current == Range(allPages)
      nNew == NewRank(allPages, m.mcpPages, Len(allPages))
      idx(p) == CHOOSE i \in DOMAIN allPages : allPages[i] = p
      withNew == [p \in DOMAIN m.mcpPages \cup current |->
                    IF p \in DOMAIN m.mcpPages
                    THEN IF p \in current
                         THEN [m.mcpPages[p] EXCEPT
                                 !.isolatedContextName = NameOfCtx(g.c2n, ctxOf[p])]
                         ELSE m.mcpPages[p]
                    ELSE NewMcpPage(m.nextPageId
                                      + NewRank(allPages, m.mcpPages, idx(p)) - 1,
                                    NameOfCtx(g.c2n, ctxOf[p]))]
      pruned == [p \in current |-> withNew[p]]
      focusKept == {c \in DOMAIN m.focused : m.focused[c] \in current}
      m1 == [m EXCEPT !.iso = g.iso, !.nextIso = g.nextIso,
                      !.mcpPages = pruned,
                      !.nextPageId = m.nextPageId + nNew,
                      !.listeners = disposeEach(m.listeners, DOMAIN m.mcpPages \ current)
                                       \cup (current \ DOMAIN m.mcpPages),
                      !.focused = [c \in focusKept |-> m.focused[c]],
                      !.pages = allPages]
      m2 == m1
      g2 == getAllPages(m2, nctx)
  IN [m2 EXCEPT !.iso = g2.iso, !.nextIso = g2.nextIso]

\* createPagesSnapshot that numbers new pages after the count of the known ones
createPagesSnapshotReusesIds(m, allPages, ctxOf, nctx) ==
  LET g == getAllPages(m, nctx)
      current == Range(allPages)
      nNew == NewRank(allPages, m.mcpPages, Len(allPages))
      idx(p) == CHOOSE i \in DOMAIN allPages : allPages[i] = p
      withNew == [p \in DOMAIN m.mcpPages \cup current |->
                    IF p \in DOMAIN m.mcpPages
                    THEN IF p \in current
                         THEN [m.mcpPages[p] EXCEPT
                                 !.isolatedContextName = NameOfCtx(g.c2n, ctxOf[p])]
                         ELSE m.mcpPages[p]
                    ELSE NewMcpPage(Cardinality(DOMAIN m.mcpPages \cap current) + 1
                                      + NewRank(allPages, m.mcpPages, idx(p)) - 1,
                                    NameOfCtx(g.c2n, ctxOf[p]))]
      pruned == [p \in current |-> withNew[p]]
      focusKept == {c \in DOMAIN m.focused : m.focused[c] \in current}
      m1 == [m EXCEPT !.iso = g.iso, !.nextIso = g.nextIso,
                      !.mcpPages = pruned,
                      !.nextPageId = m.nextPageId + nNew,
                      !.listeners = disposeEach(m.listeners, DOMAIN m.mcpPages \ current)
                                       \cup (current \ DOMAIN m.mcpPages),
                      !.focused = [c \in focusKept |-> m.focused[c]],
                      !.pages = allPages]
      m2 == IF (m1.selectedPage = NoPage \/ m1.selectedPage \notin Range(m1.pages))
               /\ Len(m1.pages) > 0
            THEN selectPage(m1, allPages, ctxOf, m1.pages[1])
            ELSE m1
      g2 == getAllPages(m2, nctx)
  IN [m2 EXCEPT !.iso = g2.iso, !.nextIso = g2.nextIso]

createPagesSnapshot(m, allPages, ctxOf, nctx) ==
  LET g == getAllPages(m, nctx)
      current == Range(allPages)
      nNew == NewRank(allPages, m.mcpPages, Len(allPages))
      idx(p) == CHOOSE i \in DOMAIN allPages : allPages[i] = p
      withNew == [p \in DOMAIN m.mcpPages \cup current |->
                    IF p \in DOMAIN m.mcpPages
                    THEN IF p \in current
                         THEN [m.mcpPages[p] EXCEPT
                                 !.isolatedContextName = NameOfCtx(g.c2n, ctxOf[p])]
                         ELSE m.mcpPages[p]
                    ELSE NewMcpPage(m.nextPageId
                                      + NewRank(allPages, m.mcpPages, idx(p)) - 1,
                                    NameOfCtx(g.c2n, ctxOf[p]))]
      pruned == [p \in current |-> withNew[p]]
      focusKept == {c \in DOMAIN m.focused : m.focused[c] \in current}
      m1 == [m EXCEPT !.iso = g.iso, !.nextIso = g.nextIso,
                      !.mcpPages = pruned,
                      !.nextPageId = m.nextPageId + nNew,
                      !.listeners = disposeEach(m.listeners, DOMAIN m.mcpPages \ current)
                                       \cup (current \ DOMAIN m.mcpPages),
                      !.focused = [c \in focusKept |-> m.focused[c]],
                      !.pages = allPages]
      m2 == IF (m1.selectedPage = NoPage \/ m1.selectedPage \notin Range(m1.pages))
               /\ Len(m1.pages) > 0
            THEN selectPage(m1, allPages, ctxOf, m1.pages[1])
            ELSE m1
      g2 == getAllPages(m2, nctx)
  IN [m2 EXCEPT !.iso = g2.iso, !.nextIso = g2.nextIso]

\* ------------------------------------------------------------ operations
Handles == DOMAIN pageCtx
PageIdArgs == 1..(MaxPages + 1)
ResolvablePages == {getPageById(M, id) : id \in PageIdArgs} \ {NoPage}

\* newPage that returns the page without selecting it
newPageCallNoSelect(limit, background, name) ==
  LET needCtx == name # NoName /\ name \notin DOMAIN isolatedContexts
      ctx == IF name = NoName THEN DefaultCtx
             ELSE IF needCtx THEN drvContexts + 1
             ELSE isolatedContexts[name]
      page == Cardinality(Handles) + 1
      nctx == IF needCtx THEN drvContexts + 1 ELSE drvContexts
      ctxOf == MapSet(pageCtx, page, ctx)
      open == Append(drvPages, page)
      m0 == [M EXCEPT !.iso = IF needCtx THEN MapSet(@, name, ctx) ELSE @,
                      !.timeouts = MapSet(@, page, DriverTimeouts)]
      m1 == createPagesSnapshot(m0, open, ctxOf, nctx)
      m2 == m1
  IN /\ Cardinality(Handles) < limit
     /\ needCtx => drvContexts < MaxCtx
     /\ drvContexts' = nctx
     /\ pageCtx' = ctxOf
     /\ drvPages' = open
     /\ SetM(m2)
     /\ lastOp' = Op("newPage", page, IdOf(m2.mcpPages, page), NoUid, m2.res,
                     <<ctx, background>>)
     /\ createdAs' = IF name = NoName THEN createdAs ELSE MapSet(createdAs, page, name)
     /\ UNCHANGED <<nextSnapshotId, retired, minted>>

\* newPage(background, isolatedContextName); limit bounds the handles.
\* background goes to browser.newPage({background}) and nowhere else.
newPageCall(limit, background, name) ==
  LET needCtx == name # NoName /\ name \notin DOMAIN isolatedContexts
      ctx == IF name = NoName THEN DefaultCtx
             ELSE IF needCtx THEN drvContexts + 1
             ELSE isolatedContexts[name]
      page == Cardinality(Handles) + 1
      nctx == IF needCtx THEN drvContexts + 1 ELSE drvContexts
      ctxOf == MapSet(pageCtx, page, ctx)
      open == Append(drvPages, page)
      m0 == [M EXCEPT !.iso = IF needCtx THEN MapSet(@, name, ctx) ELSE @,
                      !.timeouts = MapSet(@, page, DriverTimeouts)]
      m1 == createPagesSnapshot(m0, open, ctxOf, nctx)
      m2 == selectPage(m1, open, ctxOf, page)
  IN /\ Cardinality(Handles) < limit
     /\ needCtx => drvContexts < MaxCtx
     /\ drvContexts' = nctx
     /\ pageCtx' = ctxOf
     /\ drvPages' = open
     /\ SetM(m2)
     /\ lastOp' = Op("newPage", page, IdOf(m2.mcpPages, page), NoUid, m2.res,
                     <<ctx, background>>)
     /\ createdAs' = IF name = NoName THEN createdAs ELSE MapSet(createdAs, page, name)
     /\ UNCHANGED <<nextSnapshotId, retired, minted>>

\* newPage called outside the tool handler of the server
NewPage(limit, background, name) ==
  newPageCall(limit, background, name) /\ UNCHANGED gvars

\* closePage without the last-page check
closePageNoLastCheck(m, pageId) ==
  IF getPageById(m, pageId) = NoPage THEN [m EXCEPT !.res = "NotFound"]
  ELSE LET page == getPageById(m, pageId)
           ctx == pageCtx[page]
       IN [m EXCEPT !.listeners = dispose(@, page),
                    !.mcpPages = MapDelete(@, page),
                    !.focused = IF MapGet(@, ctx, NoPage) = page
                                THEN MapDelete(@, ctx) ELSE @]

\* closePage that leaves the focus-map entry of the closed page
closePageKeepsFocus(m, pageId) ==
  IF Len(m.pages) = 1 THEN [m EXCEPT !.res = "LastPageError"]
  ELSE IF getPageById(m, pageId) = NoPage THEN [m EXCEPT !.res = "NotFound"]
  ELSE LET page == getPageById(m, pageId)
       IN [m EXCEPT !.listeners = dispose(@, page),
                    !.mcpPages = MapDelete(@, page)]

\* closePage(pageId)
closePage(m, pageId) ==
  IF Len(m.pages) = 1 THEN [m EXCEPT !.res = "LastPageError"]
  ELSE IF getPageById(m, pageId) = NoPage THEN [m EXCEPT !.res = "NotFound"]
  ELSE LET page == getPageById(m, pageId)
           ctx == pageCtx[page]
       IN [m EXCEPT !.listeners = dispose(@, page),
                    !.mcpPages = MapDelete(@, page),
                    !.focused = IF MapGet(@, ctx, NoPage) = page
                                THEN MapDelete(@, ctx) ELSE @]

closePageCall(pageId) ==
  LET m1 == closePage(M, pageId)
      page == getPageById(M, pageId)
  IN /\ SetM(m1)
     /\ drvPages' = IF m1.res = "ok" THEN Without(drvPages, page) ELSE drvPages
     /\ lastOp' = Op("closePage", IF m1.res = "ok" THEN page ELSE NoPage,
                     pageId, NoUid, m1.res, <<>>)
     /\ UNCHANGED <<pageCtx, drvContexts, nextSnapshotId, retired, minted, createdAs>>

ClosePage(pageId) == closePageCall(pageId) /\ UNCHANGED gvars

\* what selectPage's catch handlers log when the driver rejects the
\* emulateFocusedPage(false) request (offFails) or the (true) request (onFails)
Logged(reqs, offFails, onFails) ==
  (IF offFails /\ \E i \in DOMAIN reqs : ~reqs[i].enabled
   THEN <<"Error turning off focused page emulation">> ELSE <<>>)
  \o (IF onFails /\ \E i \in DOMAIN reqs : reqs[i].enabled
      THEN <<"Error turning on focused page emulation">> ELSE <<>>)

\* select_page: getPageById(pageId), then selectPage(page); the requests to
\* the driver are not awaited and their rejections are caught and logged
selectPageCall(p, offFails, onFails) ==
  LET m1 == selectPage(M, drvPages, pageCtx, p)
  IN /\ p \in ResolvablePages
     /\ SetM(m1)
     /\ lastOp' = Op("selectPage", p, IdOf(mcpPages, p), NoUid, m1.res,
                     <<pageCtx[p], Logged(m1.reqs, offFails, onFails)>>)
     /\ UNCHANGED <<drvPages, pageCtx, drvContexts, nextSnapshotId, retired, minted, createdAs>>

\* selectPage with a driver that accepts the requests
SelectPage(p) == selectPageCall(p, FALSE, FALSE) /\ UNCHANGED gvars

\* selectPage with a driver that accepts or rejects each request
SelectPageDriver(p, offFails, onFails) ==
  selectPageCall(p, offFails, onFails) /\ UNCHANGED gvars

\* createPagesSnapshot() (list_pages)
Refresh ==
  LET m1 == createPagesSnapshot(M, drvPages, pageCtx, drvContexts)
  IN /\ SetM(m1)
     /\ lastOp' = Op("refresh", NoPage, 0, NoUid, m1.res, <<>>)
     /\ UNCHANGED <<drvPages, pageCtx, drvContexts, nextSnapshotId, gvars, retired, minted,
                    createdAs>>

\* resolvePageById(pageId?) called by a tool; it reads and changes nothing
ResolvePageById(pageId) ==
  LET r == resolvePageById(M, drvPages, pageId)
  IN /\ lastOp' = Op("resolvePageById", r.page, pageId, NoUid, r.res, <<>>)
     /\ focusReqs' = <<>>
     /\ UNCHANGED <<mvars, dvars, gvars, retired, minted, createdAs>>

\* the test `params.pageId` of the tool callback: undefined and 0 are falsy
Truthy(pageId) == pageId # UndefinedId /\ pageId # 0

\* the page a page-scoped tool is handed by the tool callback of the server:
\* experimentalPageIdRouting && params.pageId && !slim
\*   ? context.resolvePageById(params.pageId) : context.getSelectedMcpPage()
routePage(m, open, routing, slim, pageId) ==
  IF routing /\ Truthy(pageId) /\ ~slim THEN resolvePageById(m, open, pageId)
  ELSE IF SelectedMcpPageError(m, open) # "ok"
       THEN [page |-> NoPage, res |-> SelectedMcpPageError(m, open)]
       ELSE [page |-> m.selectedPage, res |-> "ok"]

\* the pageId arguments of a tool call: zod.number().optional()
RouteIdArgs == (0..(MaxPages + 1)) \cup {UndefinedId}

\* a page-scoped tool is called and is handed its page
PageScopedTool(routing, slim, pageId) ==
  LET r == routePage(M, drvPages, routing, slim, pageId)
  IN /\ lastOp' = Op("pageScoped", r.page, pageId, NoUid, r.res, <<routing, slim>>)
     /\ focusReqs' = <<>>
     /\ UNCHANGED <<mvars, dvars, gvars, retired, minted, createdAs>>

\* the settings emulate stores when it starts from {} instead of a copy
newSettingsFromEmpty(old, options) ==
  [networkConditions |->
     IF options.networkConditions \in {NoName, Null, "No emulation"} THEN NoName
     ELSE IF options.networkConditions = "Offline" THEN "Offline"
     ELSE IF options.networkConditions \in PredefinedNetworkConditions
     THEN options.networkConditions
     ELSE NoName,
   cpuThrottlingRate |->
     IF options.cpuThrottlingRate \in {NoRate, NullRate} THEN NoRate
     ELSE options.cpuThrottlingRate,
   geolocation |->
     IF options.geolocation \in {NoName, Null} THEN NoName
     ELSE options.geolocation]

\* newSettings of emulate: a copy of the record's settings, then every option
\* that is not undefined sets or deletes its key
newSettings(old, options) ==
  [networkConditions |->
     IF options.networkConditions = NoName THEN old.networkConditions
     ELSE IF options.networkConditions \in {Null, "No emulation"} THEN NoName
     ELSE IF options.networkConditions = "Offline" THEN "Offline"
     ELSE IF options.networkConditions \in PredefinedNetworkConditions
     THEN options.networkConditions
     ELSE old.networkConditions,
   cpuThrottlingRate |->
     IF options.cpuThrottlingRate = NoRate THEN old.cpuThrottlingRate
     ELSE IF options.cpuThrottlingRate = NullRate THEN NoRate
     ELSE options.cpuThrottlingRate,
   geolocation |->
     IF options.geolocation = NoName THEN old.geolocation
     ELSE IF options.geolocation = Null THEN NoName
     ELSE options.geolocation]

\* emulate(options, targetPage?) on a page the driver still has
emulate(m, open, options, targetPage) ==
  LET page == IF targetPage # NoPage THEN targetPage ELSE m.selectedPage
      timeoutsNeedUpdate == \/ options.networkConditions # NoName
                            \/ options.cpuThrottlingRate # NoRate
  IN IF targetPage = NoPage /\ SelectedPageError(m.selectedPage, open) # "ok"
     THEN [m EXCEPT !.res = SelectedPageError(m.selectedPage, open)]
     ELSE IF page \notin DOMAIN m.mcpPages THEN [m EXCEPT !.res = "NoMcpPage"]
     ELSE LET m1 == [m EXCEPT !.mcpPages[page].emulationSettings =
                                 newSettings(@, options)]
          IN IF timeoutsNeedUpdate THEN updateSelectedPageTimeouts(m1, open)
             ELSE m1

\* the options of the emulate calls: every pair of a network and a cpu option,
\* and the geolocation options alone
NetworkArgs == {NoName, Null, "No emulation", "Slow 4G", "Slow 11G"}
CpuArgs == {NoRate, NullRate, 4}
EmulateArgs ==
  [networkConditions : NetworkArgs, cpuThrottlingRate : CpuArgs,
   geolocation : {NoName}]
  \cup [networkConditions : {NoName}, cpuThrottlingRate : {NoRate},
        geolocation : {Null, "geo-1"}]

Emulate(options, targetPage) ==
  LET m1 == emulate(M, drvPages, options, targetPage)
  IN /\ targetPage \in (ResolvablePages \cap Range(drvPages)) \cup {NoPage}
     /\ SetM(m1)
     /\ lastOp' = Op("emulate", targetPage, 0, NoUid, m1.res, <<options>>)
     /\ UNCHANGED <<drvPages, pageCtx, drvContexts, nextSnapshotId, gvars,
                    retired, minted, createdAs>>

\* assertPageIsFocused that also rejects a page whose context has no entry
assertPageIsFocusedStrict(m, ctxOf, page) ==
  LET focused == MapGet(m.focused, ctxOf[page], NoPage)
  IN IF focused # page
     THEN [res |-> "FocusViolation",
           named |-> <<IdOf(m.mcpPages, page), IdOf(m.mcpPages, focused)>>]
     ELSE [res |-> "ok", named |-> <<>>]

\* assertPageIsFocused(page): "ok", or the error with the two ids it names
assertPageIsFocused(m, ctxOf, page) ==
  LET focused == MapGet(m.focused, ctxOf[page], NoPage)
  IN IF focused # NoPage /\ focused # page
     THEN [res |-> "FocusViolation",
           named |-> <<IdOf(m.mcpPages, page), IdOf(m.mcpPages, focused)>>]
     ELSE [res |-> "ok", named |-> <<>>]

AssertPageIsFocused(p) ==
  LET r == assertPageIsFocused(M, pageCtx, p)
  IN /\ p \in ResolvablePages
     /\ lastOp' = Op("assertPageIsFocused", p, IdOf(mcpPages, p), NoUid, r.res, r.named)
     /\ focusReqs' = <<>>
     /\ UNCHANGED <<mvars, dvars, gvars, retired, minted, createdAs>>

\* ---------------------------------------------------------------- snapshots
\* an accessibility tree in depth-first pre-order, as the backend keys
\* `${loaderId}_${backendNodeId}` of its nodes; <<>> is "no root"
Trees ==
  {<<>>} \cup {s \in UNION {[1..n -> Keys] : n \in 1..MaxKeys} :
                 \A i, j \in DOMAIN s : s[i] = s[j] => i = j}
\* uids are `${snapshotId}_${idCounter}`, modelled as <<snapshotId, idCounter>>
UidArgs == (1..MaxSnapshots) \X (0..(MaxKeys - 1))

\* assignIds without reuse of the sticky uid
RECURSIVE assignIdsAlwaysMint(_, _, _, _, _, _)
assignIdsAlwaysMint(tree, i, sticky, idCounter, snapshotId, nodes) ==
  IF i > Len(tree) THEN [sticky |-> sticky, nodes |-> nodes]
  ELSE assignIdsAlwaysMint(tree, i + 1,
                           MapSet(sticky, tree[i], <<snapshotId, idCounter>>),
                           idCounter + 1, snapshotId,
                           Append(nodes, [id |-> <<snapshotId, idCounter>>,
                                          key |-> tree[i]]))

\* assignIds(node), over the nodes from position i on
RECURSIVE assignIds(_, _, _, _, _, _)
assignIds(tree, i, sticky, idCounter, snapshotId, nodes) ==
  IF i > Len(tree) THEN [sticky |-> sticky, nodes |-> nodes]
  ELSE IF tree[i] \in DOMAIN sticky
       THEN assignIds(tree, i + 1, sticky, idCounter, snapshotId,
                      Append(nodes, [id |-> sticky[tree[i]], key |-> tree[i]]))
       ELSE assignIds(tree, i + 1,
                      MapSet(sticky, tree[i], <<snapshotId, idCounter>>),
                      idCounter + 1, snapshotId,
                      Append(nodes, [id |-> <<snapshotId, idCounter>>,
                                     key |-> tree[i]]))

\* createTextSnapshot that keeps the sticky entries of nodes not seen
createTextSnapshotNoCleanup(mp, page, tree, snapshotId) ==
  LET a == assignIds(tree, 1, mp[page].uniqueBackendNodeIdToMcpId, 0, snapshotId, <<>>)
  IN [mp EXCEPT ![page].textSnapshot = [snapshotId |-> snapshotId, nodes |-> a.nodes],
                ![page].uniqueBackendNodeIdToMcpId = a.sticky]

\* createTextSnapshot that numbers the snapshots of every page from 1
createTextSnapshotPerPageIds(mp, page, tree, snapshotId) ==
  LET sid == mp[page].textSnapshot.snapshotId + 1
      a == assignIds(tree, 1, mp[page].uniqueBackendNodeIdToMcpId, 0, sid, <<>>)
      seenUniqueIds == Range(tree)
  IN [mp EXCEPT ![page].textSnapshot = [snapshotId |-> sid, nodes |-> a.nodes],
                ![page].uniqueBackendNodeIdToMcpId =
                   [k \in DOMAIN a.sticky \cap seenUniqueIds |-> a.sticky[k]]]

\* createTextSnapshot for a capture that returned a root: the new #mcpPages
createTextSnapshot(mp, page, tree, snapshotId) ==
  LET a == assignIds(tree, 1, mp[page].uniqueBackendNodeIdToMcpId, 0, snapshotId, <<>>)
      seenUniqueIds == Range(tree)
  IN [mp EXCEPT ![page].textSnapshot = [snapshotId |-> snapshotId, nodes |-> a.nodes],
                ![page].uniqueBackendNodeIdToMcpId =
                   [k \in DOMAIN a.sticky \cap seenUniqueIds |-> a.sticky[k]]]

\* createTextSnapshot that drops the page's snapshot when the capture has no root
CreateTextSnapshotDropsOnNoRoot(p, tree) ==
  /\ p \in ResolvablePages
  /\ tree # <<>> => nextSnapshotId <= MaxSnapshots
  /\ IF IsClosed(drvPages, p)
     THEN /\ lastOp' = Op("createTextSnapshot", p, IdOf(mcpPages, p), NoUid,
                          "DriverError", <<>>)
          /\ UNCHANGED <<mcpPages, nextSnapshotId>>
     ELSE IF tree = <<>>
     THEN /\ lastOp' = Op("createTextSnapshot", p, IdOf(mcpPages, p), NoUid,
                          "noRoot", <<>>)
          /\ mcpPages' = [mcpPages EXCEPT ![p].textSnapshot = NoSnapshot]
          /\ UNCHANGED nextSnapshotId
     ELSE /\ mcpPages' = createTextSnapshot(mcpPages, p, tree, nextSnapshotId)
          /\ nextSnapshotId' = nextSnapshotId + 1
          /\ lastOp' = Op("createTextSnapshot", p, IdOf(mcpPages, p), NoUid, "ok", <<>>)
  /\ minted' = minted \cup {[page |-> p, key |-> n.key, uid |-> n.id] :
                               n \in Range(mcpPages'[p].textSnapshot.nodes)}
  /\ retired' = retired \cup
       {[page |-> p, key |-> n.key, uid |-> n.id] :
          n \in {x \in Range(mcpPages[p].textSnapshot.nodes) :
                   /\ mcpPages'[p].textSnapshot # mcpPages[p].textSnapshot
                   /\ x.key \notin Range(tree)}}
  /\ focusReqs' = <<>>
  /\ UNCHANGED <<pages, selectedPage, focusedPagePerContext, nextPageId,
                 isolatedContexts, nextIsolatedContextId, dvars, gvars, createdAs,
                 dialogs>>

\* createTextSnapshot(verbose, devtoolsData, targetPage)
CreateTextSnapshot(p, tree) ==
  /\ p \in ResolvablePages
  /\ tree # <<>> => nextSnapshotId <= MaxSnapshots
  /\ IF IsClosed(drvPages, p)
     THEN /\ lastOp' = Op("createTextSnapshot", p, IdOf(mcpPages, p), NoUid,
                          "DriverError", <<>>)
          /\ UNCHANGED <<mcpPages, nextSnapshotId>>
     ELSE IF tree = <<>>
     THEN /\ lastOp' = Op("createTextSnapshot", p, IdOf(mcpPages, p), NoUid,
                          "noRoot", <<>>)
          /\ UNCHANGED <<mcpPages, nextSnapshotId>>
     ELSE /\ mcpPages' = createTextSnapshot(mcpPages, p, tree, nextSnapshotId)
          /\ nextSnapshotId' = nextSnapshotId + 1
          /\ lastOp' = Op("createTextSnapshot", p, IdOf(mcpPages, p), NoUid, "ok", <<>>)
  /\ minted' = minted \cup {[page |-> p, key |-> n.key, uid |-> n.id] :
                               n \in Range(mcpPages'[p].textSnapshot.nodes)}
  /\ retired' = retired \cup
       {[page |-> p, key |-> n.key, uid |-> n.id] :
          n \in {x \in Range(mcpPages[p].textSnapshot.nodes) :
                   /\ mcpPages'[p].textSnapshot # mcpPages[p].textSnapshot
                   /\ x.key \notin Range(tree)}}
  /\ focusReqs' = <<>>
  /\ UNCHANGED <<pages, selectedPage, focusedPagePerContext, nextPageId,
                 isolatedContexts, nextIsolatedContextId, dvars, gvars, createdAs,
                 dialogs>>

\* textSnapshot.idToNode.has(uid)
HasUid(snapshot, uid) == \E i \in DOMAIN snapshot.nodes : snapshot.nodes[i].id = uid
\* textSnapshot.idToNode.get(uid): the node set last under uid
NodeOf(snapshot, uid) ==
  snapshot.nodes[CHOOSE i \in DOMAIN snapshot.nodes :
                   /\ snapshot.nodes[i].id = uid
                   /\ \A j \in DOMAIN snapshot.nodes :
                        snapshot.nodes[j].id = uid => j <= i]

\* the pages whose snapshot holds uid, and the first of them in the insertion
\* order of #mcpPages (records are inserted in id order)
PagesWithUid(mp, uid) == {p \in DOMAIN mp : HasUid(mp[p].textSnapshot, uid)}
FirstById(mp, ps) == CHOOSE p \in ps : \A q \in ps : mp[p].id <= mp[q].id

\* getAXNodeByUid(uid): the node and the page it was found on, or no page
getAXNodeByUid(mp, uid) ==
  IF PagesWithUid(mp, uid) = {} THEN [page |-> NoPage, key |-> 0]
  ELSE LET p == FirstById(mp, PagesWithUid(mp, uid))
       IN [page |-> p, key |-> NodeOf(mp[p].textSnapshot, uid).key]

\* #resolveElementHandle(node, uid): the driver finds the element or not
resolveElementHandle(open, page, alive) ==
  IF alive /\ ~IsClosed(open, page) THEN "ok" ELSE "StaleElement"

\* the cross-page branch without the realignment of #selectedPage
getElementByUidNoAlign(m, open, ctxOf, uid, page, alive) ==
  LET hits == PagesWithUid(m.mcpPages, uid)
      searchPage == FirstById(m.mcpPages, hits)
  IN IF page # NoPage \/ hits = {}
        \/ MapGet(m.focused, ctxOf[searchPage], NoPage) # searchPage
     THEN [m EXCEPT !.res = "UnknownUid"]
     ELSE [m EXCEPT !.res = resolveElementHandle(open, searchPage, alive),
                    !.reqs = <<m.mcpPages[searchPage].id>>]

\* getElementByUid whose scoped form accepts a uid of any page's snapshot
getElementByUidAnyPage(m, open, ctxOf, uid, page, alive) ==
  IF page # NoPage
  THEN IF page \notin DOMAIN m.mcpPages
          \/ m.mcpPages[page].textSnapshot = NoSnapshot
       THEN [m EXCEPT !.res = "NoSnapshot"]
       ELSE IF PagesWithUid(m.mcpPages, uid) = {}
       THEN [m EXCEPT !.res = "UnknownUid"]
       ELSE [m EXCEPT !.res = resolveElementHandle(open, page, alive),
                      !.reqs = <<m.mcpPages[page].id>>]
  ELSE LET withSnapshot == {p \in DOMAIN m.mcpPages :
                              m.mcpPages[p].textSnapshot # NoSnapshot}
           hits == PagesWithUid(m.mcpPages, uid)
           searchPage == FirstById(m.mcpPages, hits)
           contextSelectedPage == MapGet(m.focused, ctxOf[searchPage], NoPage)
       IN IF hits = {}
          THEN [m EXCEPT !.res = IF withSnapshot = {} THEN "NoSnapshot"
                                 ELSE "UnknownUid"]
          ELSE IF contextSelectedPage # searchPage
          THEN IF contextSelectedPage # NoPage
               THEN [m EXCEPT !.res = "FocusViolation",
                              !.reqs = <<m.mcpPages[searchPage].id,
                                         IdOf(m.mcpPages, contextSelectedPage)>>]
               ELSE IF SelectedMcpPageError(m, open) # "ok"
               THEN [m EXCEPT !.res = SelectedMcpPageError(m, open)]
               ELSE [m EXCEPT !.res = "FocusViolation",
                              !.reqs = <<m.mcpPages[searchPage].id,
                                         m.mcpPages[m.selectedPage].id>>]
          ELSE [m EXCEPT !.selectedPage = searchPage,
                         !.res = resolveElementHandle(open, searchPage, alive),
                         !.reqs = <<m.mcpPages[searchPage].id>>]

\* getElementByUid without the anySnapshot flag of the cross-page form
getElementByUidNoAnySnapshot(m, open, ctxOf, uid, page, alive) ==
  IF page # NoPage
  THEN IF page \notin DOMAIN m.mcpPages
          \/ m.mcpPages[page].textSnapshot = NoSnapshot
       THEN [m EXCEPT !.res = "NoSnapshot"]
       ELSE IF ~HasUid(m.mcpPages[page].textSnapshot, uid)
       THEN [m EXCEPT !.res = "UnknownUid"]
       ELSE [m EXCEPT !.res = resolveElementHandle(open, page, alive),
                      !.reqs = <<m.mcpPages[page].id>>]
  ELSE LET withSnapshot == {p \in DOMAIN m.mcpPages :
                              m.mcpPages[p].textSnapshot # NoSnapshot}
           hits == PagesWithUid(m.mcpPages, uid)
           searchPage == FirstById(m.mcpPages, hits)
           contextSelectedPage == MapGet(m.focused, ctxOf[searchPage], NoPage)
       IN IF hits = {}
          THEN [m EXCEPT !.res = "UnknownUid"]
          ELSE IF contextSelectedPage # searchPage
          THEN IF contextSelectedPage # NoPage
               THEN [m EXCEPT !.res = "FocusViolation",
                              !.reqs = <<m.mcpPages[searchPage].id,
                                         IdOf(m.mcpPages, contextSelectedPage)>>]
               ELSE IF SelectedMcpPageError(m, open) # "ok"
               THEN [m EXCEPT !.res = SelectedMcpPageError(m, open)]
               ELSE [m EXCEPT !.res = "FocusViolation",
                              !.reqs = <<m.mcpPages[searchPage].id,
                                         m.mcpPages[m.selectedPage].id>>]
          ELSE [m EXCEPT !.selectedPage = searchPage,
                         !.res = resolveElementHandle(open, searchPage, alive),
                         !.reqs = <<m.mcpPages[searchPage].id>>]

\* getElementByUid(uid, page?): res is the outcome, reqs carries the ids the
\* error message names (or the id of the page the uid was found on)
getElementByUid(m, open, ctxOf, uid, page, alive) ==
  IF page # NoPage
  THEN IF page \notin DOMAIN m.mcpPages
          \/ m.mcpPages[page].textSnapshot = NoSnapshot
       THEN [m EXCEPT !.res = "NoSnapshot"]
       ELSE IF ~HasUid(m.mcpPages[page].textSnapshot, uid)
       THEN [m EXCEPT !.res = "UnknownUid"]
       ELSE [m EXCEPT !.res = resolveElementHandle(open, page, alive),
                      !.reqs = <<m.mcpPages[page].id>>]
  ELSE LET withSnapshot == {p \in DOMAIN m.mcpPages :
                              m.mcpPages[p].textSnapshot # NoSnapshot}
           hits == PagesWithUid(m.mcpPages, uid)
           searchPage == FirstById(m.mcpPages, hits)
           contextSelectedPage == MapGet(m.focused, ctxOf[searchPage], NoPage)
       IN IF hits = {}
          THEN [m EXCEPT !.res = IF withSnapshot = {} THEN "NoSnapshot"
                                 ELSE "UnknownUid"]
          ELSE IF contextSelectedPage # searchPage
          THEN IF contextSelectedPage # NoPage
               THEN [m EXCEPT !.res = "FocusViolation",
                              !.reqs = <<m.mcpPages[searchPage].id,
                                         IdOf(m.mcpPages, contextSelectedPage)>>]
               ELSE IF SelectedMcpPageError(m, open) # "ok"
               THEN [m EXCEPT !.res = SelectedMcpPageError(m, open)]
               ELSE [m EXCEPT !.res = "FocusViolation",
                              !.reqs = <<m.mcpPages[searchPage].id,
                                         m.mcpPages[m.selectedPage].id>>]
          ELSE [m EXCEPT !.selectedPage = searchPage,
                         !.res = resolveElementHandle(open, searchPage, alive),
                         !.reqs = <<m.mcpPages[searchPage].id>>]

GetElementByUid(uid, page, alive) ==
  LET m1 == getElementByUid(M, drvPages, pageCtx, uid, page, alive)
  IN /\ page \in ResolvablePages \cup {NoPage}
     /\ selectedPage' = m1.selectedPage
     /\ lastOp' = Op("getElementByUid", page, 0, uid, m1.res, m1.reqs)
     /\ focusReqs' = <<>>
     /\ UNCHANGED <<pages, mcpPages, focusedPagePerContext, nextPageId,
                    isolatedContexts, nextIsolatedContextId, nextSnapshotId,
                    dvars, gvars, retired, minted, createdAs, dialogs>>

\* --------------------------------------------------------------- dialogs
\* the dialogs a page can open
Dialogs == {"alert", "confirm"}

\* the page emits 'dialog': the handler of its record, if attached, runs
\* this.#dialog = dialog
dialogHandler(ls, ds, page, dialog) ==
  IF page \in ls THEN MapSet(ds, page, dialog) ELSE ds

DialogEvent(page, dialog) ==
  /\ page \in Range(drvPages)
  /\ dialogs' = dialogHandler(listeners, dialogs, page, dialog)
  /\ lastOp' = Op("dialog", page, IdOf(mcpPages, page), NoUid, "ok", <<dialog>>)
  /\ focusReqs' = <<>>
  /\ UNCHANGED <<pages, mcpPages, selectedPage, focusedPagePerContext, nextPageId,
                 isolatedContexts, nextIsolatedContextId, nextSnapshotId,
                 dvars, gvars, retired, minted, createdAs>>

\* getDialog(page?)
getDialog(m, ds, page) ==
  LET targetPage == IF page # NoPage THEN page ELSE m.selectedPage
  IN IF targetPage \in DOMAIN m.mcpPages THEN MapGet(ds, targetPage, NoDialog)
     ELSE NoDialog

\* clearDialog(page?)
clearDialog(m, ds, page) ==
  LET targetPage == IF page # NoPage THEN page ELSE m.selectedPage
  IN IF targetPage \in DOMAIN m.mcpPages /\ targetPage \in DOMAIN ds
     THEN MapDelete(ds, targetPage) ELSE ds

ClearDialog(page) ==
  /\ page \in (DOMAIN mcpPages) \cup {NoPage}
  /\ dialogs' = clearDialog(M, dialogs, page)
  /\ lastOp' = Op("clearDialog", page, IdOf(mcpPages, page), NoUid, "ok",
                  <<getDialog(M, dialogs, page)>>)
  /\ focusReqs' = <<>>
  /\ UNCHANGED <<pages, mcpPages, selectedPage, focusedPagePerContext, nextPageId,
                 isolatedContexts, nextIsolatedContextId, nextSnapshotId,
                 dvars, gvars, retired, minted, createdAs>>

\* McpContext.dispose(): every record is disposed, #mcpPages and
\* #isolatedContexts are cleared; the pages and the contexts stay open
disposeContext(m) ==
  [m EXCEPT !.listeners = disposeEach(@, DOMAIN m.mcpPages),
            !.mcpPages = EmptyMap,
            !.iso = EmptyMap]

Dispose ==
  LET m1 == disposeContext(M)
  IN /\ nextPageId < MaxDisposeId
     /\ SetM(m1)
     /\ lastOp' = Op("dispose", NoPage, 0, NoUid, m1.res, <<>>)
     /\ UNCHANGED <<drvPages, pageCtx, drvContexts, nextSnapshotId, gvars, retired, minted,
                    createdAs>>

\* ------------------------------------------------------------ environment
\* a page is closed outside the manager (the user closes the tab)
ExternalClose(p) ==
  /\ p \in Range(drvPages)
  /\ drvPages' = Without(drvPages, p)
  /\ lastOp' = Op("externalClose", p, 0, NoUid, "ok", <<>>)
  /\ focusReqs' = <<>>
  /\ UNCHANGED <<pageCtx, drvContexts, listeners, pageTimeouts, emulatedFocus,
                 mvars, gvars, retired, minted, createdAs>>

\* a page is opened outside the manager, in context c (a new one if c is new)
ExternalOpen(limit, c) ==
  LET page == Cardinality(Handles) + 1
  IN /\ Cardinality(Handles) < limit
     /\ c \in 0..(drvContexts + 1)
     /\ c <= MaxCtx
     /\ drvContexts' = IF c > drvContexts THEN c ELSE drvContexts
     /\ pageCtx' = MapSet(pageCtx, page, c)
     /\ drvPages' = Append(drvPages, page)
     /\ lastOp' = Op("externalOpen", page, 0, NoUid, "ok", <<c>>)
     /\ focusReqs' = <<>>
     /\ pageTimeouts' = MapSet(pageTimeouts, page, DriverTimeouts)
     /\ UNCHANGED <<listeners, emulatedFocus, mvars, gvars, retired, minted, createdAs>>

\* ------------------------------------------------------------------- Init
\* McpContext.from(): the constructor's fields, then #init's refresh of a
\* browser that has one page open in the default context
Constructed ==
  [pages |-> <<>>, mcpPages |-> EmptyMap, selectedPage |-> NoPage,
   focused |-> EmptyMap, nextPageId |-> FirstId, iso |-> EmptyMap,
   nextIso |-> FirstId, listeners |-> {}, timeouts |-> (1 :> DriverTimeouts),
   reqs |-> <<>>, res |-> "ok"]

Init ==
  LET m == createPagesSnapshot(Constructed, <<1>>, (1 :> DefaultCtx), 0)
  IN /\ drvPages = <<1>>
     /\ pageCtx = (1 :> DefaultCtx)
     /\ drvContexts = 0
     /\ listeners = m.listeners
     /\ pageTimeouts = m.timeouts
     /\ emulatedFocus = ApplyFocusReqs({}, m.reqs)
     /\ pages = m.pages
     /\ mcpPages = m.mcpPages
     /\ selectedPage = m.selectedPage
     /\ focusedPagePerContext = m.focused
     /\ nextPageId = m.nextPageId
     /\ isolatedContexts = m.iso
     /\ nextIsolatedContextId = m.nextIso
     /\ nextSnapshotId = FirstId
     /\ focusReqs = m.reqs
     /\ lastOp = [op |-> "init", page |-> NoPage, id |-> 0, uid |-> NoUid,
                  res |-> "ok", named |-> <<>>, sel |-> NoPage]
     /\ locked = FALSE
     /\ acquirers = <<>>
     /\ pc = [c \in 1..MaxCmds |-> "idle"]
     /\ runs = 0
     /\ retired = {}
     /\ minted = {}
     /\ createdAs = EmptyMap
     /\ dialogs = EmptyMap
     /\ log = <<>>

Next ==
  \/ \E name \in AgentNames \cup {NoName} : NewPage(MaxPages, FALSE, name)
  \/ \E id \in PageIdArgs : ClosePage(id)
  \/ \E p \in Handles : SelectPage(p)
  \/ Refresh
  \/ \E p \in Handles : AssertPageIsFocused(p)
  \/ \E p \in Handles : ExternalClose(p)
  \/ \E c \in 0..MaxCtx : ExternalOpen(MaxPages, c)

Spec == Init /\ [][Next]_vars

\* ------------------------------------------------------------ command gate
Cmds == 1..MaxCmds

\* an acquire that grants the gate without locking it
acquireNoLock(isLocked, waiters, c) ==
  [locked |-> FALSE, acquirers |-> waiters, granted |-> TRUE]

\* Mutex.acquire() by command c: the gate is taken if it is free, else the
\* command joins the FIFO of waiters
acquire(isLocked, waiters, c) ==
  IF ~isLocked THEN [locked |-> TRUE, acquirers |-> waiters, granted |-> TRUE]
  ELSE [locked |-> TRUE, acquirers |-> Append(waiters, c), granted |-> FALSE]

\* a release that hands the gate to the newest waiter
releaseNewestFirst(isLocked, waiters) ==
  IF waiters = <<>> THEN [locked |-> FALSE, acquirers |-> <<>>, next |-> 0]
  ELSE [locked |-> TRUE, acquirers |-> SubSeq(waiters, 1, Len(waiters) - 1),
        next |-> waiters[Len(waiters)]]

\* Guard.dispose() -> Mutex.release(): the oldest waiter gets the gate, and
\* the gate is free when nobody waits
release(isLocked, waiters) ==
  IF waiters = <<>> THEN [locked |-> FALSE, acquirers |-> <<>>, next |-> 0]
  ELSE [locked |-> TRUE, acquirers |-> Tail(waiters), next |-> Head(waiters)]

\* a handler that goes on without awaiting the gate
afterAcquireNoAwait(granted) == "try"

\* `const guard = await toolMutex.acquire()`: the handler enters its try
\* block once the gate is granted and is suspended until then
afterAcquire(granted) == IF granted THEN "try" ELSE "waiting"

Event(c, ev) == [cmd |-> c, ev |-> ev]

\* a finally block that returns without guard.dispose()
FinallyNoDispose(c) ==
  /\ pc' = [pc EXCEPT ![c] = "idle"]
  /\ log' = Append(log, Event(c, "finish"))
  /\ UNCHANGED <<locked, acquirers>>

\* the finally block of command c: guard.dispose(), the handler returns and
\* the oldest waiter resumes after its await
Finally(c) ==
  LET r == release(locked, acquirers)
  IN /\ locked' = r.locked
     /\ acquirers' = r.acquirers
     /\ pc' = [d \in Cmds |-> IF d = c THEN "idle"
                              ELSE IF d = r.next THEN "try" ELSE pc[d]]
     /\ log' = IF r.next = 0 THEN Append(log, Event(c, "finish"))
               ELSE log \o <<Event(c, "finish"), Event(r.next, "start")>>

\* a tool call arrives: the registered callback starts and asks for the gate
CallTool(c) ==
  LET a == acquire(locked, acquirers, c)
  IN /\ pc[c] = "idle"
     /\ runs < MaxRuns
     /\ runs' = runs + 1
     /\ locked' = a.locked
     /\ acquirers' = a.acquirers
     /\ pc' = [pc EXCEPT ![c] = afterAcquire(a.granted)]
     /\ log' = IF pc'[c] = "try"
               THEN log \o <<Event(c, "request"), Event(c, "start")>>
               ELSE Append(log, Event(c, "request"))
     /\ UNCHANGED <<mvars, dvars, focusReqs, lastOp, retired, minted, createdAs>>

\* the try block up to the end of tool.handler: the tool runs one operation
\* of the context; an error goes through catch and finally
RunTool(c) ==
  /\ pc[c] = "try"
  /\ \/ \E name \in AgentNames \cup {NoName} : newPageCall(MaxPages, FALSE, name)
     \/ \E id \in PageIdArgs : closePageCall(id)
     \/ \E p \in Handles : selectPageCall(p, FALSE, FALSE)
  /\ runs' = runs
  /\ IF lastOp'.res = "ok"
     THEN /\ pc' = [pc EXCEPT ![c] = "respond"]
          /\ UNCHANGED <<locked, acquirers, log>>
     ELSE Finally(c)

\* response.handle(tool.name, context) resolves or throws, then finally
Respond(c) ==
  /\ pc[c] = "respond"
  /\ Finally(c)
  /\ UNCHANGED <<mvars, dvars, focusReqs, lastOp, runs, retired, minted, createdAs>>

NextGate == \E c \in Cmds : CallTool(c) \/ RunTool(c) \/ Respond(c)

SpecGate == Init /\ [][NextGate]_vars

\* the steps RunTool(c) and Respond(c) as they show on pc: command c leaves
\* the position of its handler it is at, and a waiter may get the gate
MovesOn(c) ==
  /\ pc[c] \in {"try", "respond"}
  /\ \E v \in {"respond", "idle"}, d \in Cmds \cup {0} :
       pc' = [x \in Cmds |-> IF x = c THEN v
                             ELSE IF x = d /\ pc[x] = "waiting" THEN "try"
                             ELSE pc[x]]
  /\ pc'[c] # pc[c]

\* every command that holds the gate goes on: its tool handler returns or
\* throws, and its response is built or fails
SpecGateLive == SpecGate /\ \A c \in Cmds : WF_pc(MovesOn(c))

\* the tool of command c fails on a driver call that times out: newPage at
\* browser.newPage(), before anything is stored, or closePage at page.close(),
\* after the record and the focus entry are removed; the error goes through
\* catch and finally, and the driver may still finish the call later
RunToolTimesOut(c) ==
  /\ pc[c] = "try"
  /\ \/ /\ SetM(M)
        /\ lastOp' = Op("newPage", NoPage, 0, NoUid, "TimeoutError",
                        <<DefaultCtx, FALSE>>)
     \/ \E id \in PageIdArgs :
          LET m1 == closePage(M, id)
          IN /\ m1.res = "ok"
             /\ SetM(m1)
             /\ lastOp' = Op("closePage", getPageById(M, id), id, NoUid,
                             "TimeoutError", <<>>)
  /\ Finally(c)
  /\ UNCHANGED <<drvPages, pageCtx, drvContexts, nextSnapshotId, runs, retired, minted,
                 createdAs>>

\* an emulateFocusedPage request that selectPage started with void settles:
\* a rejection goes to the catch that logs it, a fulfilment to nobody
FocusRequestSettles(rejected) ==
  /\ focusReqs # <<>>
  /\ focusReqs' = Tail(focusReqs)
  /\ lastOp' = Op("focusRequestSettled", Head(focusReqs).page, 0, NoUid,
                  IF rejected THEN "logged" ELSE "ok", <<Head(focusReqs).enabled>>)
  /\ UNCHANGED <<mvars, dvars, gvars, retired, minted, createdAs>>

\* the tool handler with the driver's side of it: calls that time out, the
\* page a timed-out newPage still opens, the page a timed-out closePage still
\* closes, and the settling of the focus requests
NextGateDriver ==
  \/ \E c \in Cmds : CallTool(c) \/ RunTool(c) \/ Respond(c)
  \/ \E c \in Cmds : RunToolTimesOut(c)
  \/ \E rejected \in BOOLEAN : FocusRequestSettles(rejected)
  \/ \E p \in Handles : ExternalClose(p)
  \/ ExternalOpen(MaxPages, DefaultCtx)

SpecGateDriver == Init /\ [][NextGateDriver]_vars

\* the session manager driven by the agent alone: nothing opens or closes
\* pages outside the server
NextAgent ==
  \/ \E name \in AgentNames \cup {NoName} : NewPage(MaxPages, FALSE, name)
  \/ \E id \in PageIdArgs : ClosePage(id)
  \/ \E p \in Handles : SelectPage(p)
  \/ Refresh

SpecAgent == Init /\ [][NextAgent]_vars

\* the session manager and the environment, with page resolution
NextResolve ==
  \/ \E name \in {"ctx-a", NoName} : NewPage(MaxPages, FALSE, name)
  \/ \E id \in PageIdArgs : ClosePage(id)
  \/ \E p \in Handles : SelectPage(p)
  \/ Refresh
  \/ \E p \in Handles : ExternalClose(p)
  \/ \E c \in 0..MaxCtx : ExternalOpen(MaxPages, c)
  \/ \E id \in PageIdArgs \cup {UndefinedId} : ResolvePageById(id)

SpecResolve == Init /\ [][NextResolve]_vars

\* the session manager with emulation, on fewer pages
NextEmulate ==
  \/ NewPage(MaxEmuPages, FALSE, NoName)
  \/ \E p \in Handles : SelectPage(p)
  \/ \E options \in EmulateArgs, p \in Handles \cup {NoPage} : Emulate(options, p)

SpecEmulate == Init /\ [][NextEmulate]_vars

\* the agent's calls, with pages made in the foreground and in the background
NextBackground ==
  \/ \E background \in BOOLEAN, name \in {"ctx-a", NoName} :
       NewPage(MaxPages, background, name)
  \/ \E id \in PageIdArgs : ClosePage(id)
  \/ \E p \in Handles : SelectPage(p)
  \/ Refresh

SpecBackground == Init /\ [][NextBackground]_vars

\* the session manager with a driver that may reject emulated-focus requests
NextSelect ==
  \/ \E name \in {"ctx-a", NoName} : NewPage(MaxPages, FALSE, name)
  \/ \E id \in PageIdArgs : ClosePage(id)
  \/ \E p \in Handles, offFails, onFails \in BOOLEAN :
       SelectPageDriver(p, offFails, onFails)
  \/ Refresh
  \/ \E p \in Handles : ExternalClose(p)

SpecSelect == Init /\ [][NextSelect]_vars

\* the session manager with the page routing of the tool callback
NextRoute ==
  \/ \E name \in {"ctx-a", NoName} : NewPage(MaxPages, FALSE, name)
  \/ \E id \in PageIdArgs : ClosePage(id)
  \/ \E p \in Handles : SelectPage(p)
  \/ Refresh
  \/ \E p \in Handles : ExternalClose(p)
  \/ \E routing, slim \in BOOLEAN, id \in RouteIdArgs : PageScopedTool(routing, slim, id)

SpecRoute == Init /\ [][NextRoute]_vars

\* the session manager with dialogs and the disposal of the session
NextDispose ==
  \/ NewPage(MaxDialogPages, FALSE, NoName)
  \/ \E id \in PageIdArgs : ClosePage(id)
  \/ Refresh
  \/ \E p \in Handles : ExternalClose(p)
  \/ \E p \in Handles, d \in Dialogs : DialogEvent(p, d)
  \/ \E p \in Handles \cup {NoPage} : ClearDialog(p)
  \/ Dispose

SpecDispose == Init /\ [][NextDispose]_vars

\* the session manager with snapshots and element lookup, on fewer pages
NextSnap ==
  \/ \E name \in {"ctx-a", NoName} : NewPage(MaxSnapPages, FALSE, name)
  \/ \E id \in PageIdArgs : ClosePage(id)
  \/ \E p \in Handles : SelectPage(p)
  \/ \E p \in Handles, tree \in Trees : CreateTextSnapshot(p, tree)
  \/ \E uid \in UidArgs, p \in Handles \cup {NoPage}, alive \in BOOLEAN :
       GetElementByUid(uid, p, alive)

SpecSnap == Init /\ [][NextSnap]_vars

\* =================================================================== claims
FocusOf(f, c) == MapGet(f, c, NoPage)
FocusValues(f) == {f[c] : c \in DOMAIN f}
\* assertPageIsFocused(p) throws, under focus map f and records mp
Fails(f, mp, ctxOf, p) ==
  assertPageIsFocused([focused |-> f, mcpPages |-> mp], ctxOf, p).res = "FocusViolation"

\* C1: with exactly one page in the registry, closePage fails with the
\* last-page error for every pageId and changes nothing: the page stays open,
\* the records, the focus map and the selected pointer keep their values.
C1_LastPageCloseFails ==
  [][(lastOp'.op = "closePage" /\ Len(pages) = 1)
     => /\ lastOp'.res = "LastPageError"
        /\ drvPages' = drvPages
        /\ pages' = pages
        /\ mcpPages' = mcpPages
        /\ listeners' = listeners
        /\ focusedPagePerContext' = focusedPagePerContext
        /\ selectedPage' = selectedPage]_vars

C1_Witness ==
  /\ lastOp.op = "closePage"
  /\ lastOp.res = "LastPageError"
  /\ Len(pages) = 1
  /\ pages[1] \in Range(drvPages)
  /\ lastOp.id = IdOf(mcpPages, pages[1])

\* the focus map holds at most one page of every browsing context
AtMostOneFocusedPerContext(f, ctxOf) ==
  \A c \in 0..MaxCtx :
    Cardinality({p \in FocusValues(f) : ctxOf[p] = c}) <= 1

\* after selectPage(Q) the entry of Q's context is Q and the other pages of
\* that context fail assertPageIsFocused
SelectInstallsFocus ==
  lastOp'.op = "selectPage"
  => /\ FocusOf(focusedPagePerContext', pageCtx[lastOp'.page]) = lastOp'.page
     /\ \A p \in Handles :
          (p # lastOp'.page /\ pageCtx[p] = pageCtx[lastOp'.page])
          => Fails(focusedPagePerContext', mcpPages', pageCtx', p)

\* C2 (as stated): at most one focused page per context; selectPage(Q) makes Q
\* the entry of its context; every other page of the context fails
\* assertPageIsFocused until it is selected again.
C2_Original ==
  [][/\ AtMostOneFocusedPerContext(focusedPagePerContext', pageCtx')
     /\ SelectInstallsFocus
     /\ \A p \in Handles :
          (Fails(focusedPagePerContext, mcpPages, pageCtx, p)
           /\ ~Fails(focusedPagePerContext', mcpPages', pageCtx', p))
          => FocusOf(focusedPagePerContext', pageCtx[p]) = p]_vars

\* C2 (amended): at most one focused page per context; selectPage(Q) makes Q
\* the entry of its context; every other page of the context fails
\* assertPageIsFocused until it is selected again or the context loses its
\* focus-map entry (closePage of the focused page, or a refresh pruning it).
C2_FocusExclusive ==
  [][/\ AtMostOneFocusedPerContext(focusedPagePerContext', pageCtx')
     /\ SelectInstallsFocus
     /\ \A p \in Handles :
          (Fails(focusedPagePerContext, mcpPages, pageCtx, p)
           /\ ~Fails(focusedPagePerContext', mcpPages', pageCtx', p))
          => \/ FocusOf(focusedPagePerContext', pageCtx[p]) = p
             \/ pageCtx[p] \notin DOMAIN focusedPagePerContext']_vars

C2_Witness ==
  /\ lastOp.op = "selectPage"
  /\ \E p \in ResolvablePages :
       /\ p # lastOp.page
       /\ pageCtx[p] = pageCtx[lastOp.page]
       /\ pageCtx[p] # DefaultCtx
       /\ Fails(focusedPagePerContext, mcpPages, pageCtx, p)

\* the context in which the last operation made its focus transition
TransitionCtx(op) == IF op.op = "closePage" THEN pageCtx[op.page] ELSE op.named[1]
OtherEntriesKept(c) ==
  \A d \in 0..MaxCtx :
    d # c => FocusOf(focusedPagePerContext', d) = FocusOf(focusedPagePerContext, d)
RequestsOnlyIn(c) ==
  \A i \in DOMAIN focusReqs' : pageCtx'[focusReqs'[i].page] = c
\* the refresh inside newPage finds the selected page no longer listed
FallbackSelects ==
  selectedPage = NoPage \/ selectedPage \notin Range(drvPages)

\* C3 (as stated): selectPage of a page of C, createPage into C and closePage
\* of a page of C never change the focus-map entry of another context and
\* never issue an emulated-focus request to a page of another context.
C3_Original ==
  [][(lastOp'.op \in {"selectPage", "newPage", "closePage"} /\ lastOp'.page # NoPage)
     => /\ OtherEntriesKept(TransitionCtx(lastOp'))
        /\ RequestsOnlyIn(TransitionCtx(lastOp'))]_vars

\* C3 (amended): selectPage and closePage of a page of C never change the
\* entry of another context nor issue a focus request to a page of another
\* context; createPage into C does so only through its registry refresh:
\* an entry whose page is no longer open is removed, and when the selected
\* page is no longer listed the first listed page is selected in its context.
C3_CrossContextIndependence ==
  [][/\ (lastOp'.op \in {"selectPage", "closePage"} /\ lastOp'.page # NoPage)
        => /\ OtherEntriesKept(TransitionCtx(lastOp'))
           /\ RequestsOnlyIn(TransitionCtx(lastOp'))
     /\ lastOp'.op = "newPage"
        => /\ \A d \in 0..MaxCtx :
                (d # TransitionCtx(lastOp')
                 /\ FocusOf(focusedPagePerContext', d) # FocusOf(focusedPagePerContext, d))
                => \/ /\ FocusOf(focusedPagePerContext, d) \notin Range(drvPages)
                      /\ FocusOf(focusedPagePerContext', d) = NoPage
                   \/ /\ FallbackSelects
                      /\ pageCtx[drvPages'[1]] = d
                      /\ FocusOf(focusedPagePerContext', d) = drvPages'[1]
           /\ \A i \in DOMAIN focusReqs' :
                pageCtx'[focusReqs'[i].page] # TransitionCtx(lastOp')
                => /\ FallbackSelects
                   /\ pageCtx'[focusReqs'[i].page] = pageCtx[drvPages'[1]]]_vars

C3_Witness ==
  /\ lastOp.op = "selectPage"
  /\ lastOp.res = "ok"
  /\ Len(focusReqs) = 2
  /\ \E d \in DOMAIN focusedPagePerContext :
       /\ d # pageCtx[lastOp.page]
       /\ focusedPagePerContext[d] \in Range(drvPages)
       /\ focusedPagePerContext[d] # selectedPage

\* C4 (as stated): assertPageIsFocused(page) succeeds exactly when page is the
\* focus-map entry of its context, and fails otherwise (also when the context
\* has no entry), naming the requesting page id and the focused page id.
C4_Original ==
  lastOp.op = "assertPageIsFocused"
  => /\ lastOp.res = "ok"
        <=> FocusOf(focusedPagePerContext, pageCtx[lastOp.page]) = lastOp.page
     /\ lastOp.res # "ok"
        => /\ lastOp.res = "FocusViolation"
           /\ lastOp.named =
                <<mcpPages[lastOp.page].id,
                  IdOf(mcpPages, FocusOf(focusedPagePerContext, pageCtx[lastOp.page]))>>

\* C4 (amended): assertPageIsFocused(page) fails exactly when the focus map
\* holds an entry for page's context that is another page, and the error names
\* the requesting page's id and that focused page's id; it succeeds when page
\* is the entry and when the context has no entry.
C4_AssertFocused ==
  lastOp.op = "assertPageIsFocused"
  => LET focused == FocusOf(focusedPagePerContext, pageCtx[lastOp.page])
     IN /\ lastOp.res = "ok" <=> focused \in {NoPage, lastOp.page}
        /\ lastOp.res # "ok"
           => /\ lastOp.res = "FocusViolation"
              /\ focused \in DOMAIN mcpPages
              /\ lastOp.named = <<mcpPages[lastOp.page].id, mcpPages[focused].id>>
              /\ lastOp.named[1] # lastOp.named[2]

C4_Witness ==
  /\ lastOp.op = "assertPageIsFocused"
  /\ lastOp.res = "FocusViolation"
  /\ pageCtx[lastOp.page] # DefaultCtx

C4_WitnessNoEntry ==
  /\ lastOp.op = "assertPageIsFocused"
  /\ lastOp.res = "ok"
  /\ pageCtx[lastOp.page] \notin DOMAIN focusedPagePerContext

UnscopedLookup(op) == op.op = "getElementByUid" /\ op.page = NoPage
SnapshotOf(mp, p) == mp[p].textSnapshot
KeysOf(snapshot) == {snapshot.nodes[i].key : i \in DOMAIN snapshot.nodes}

\* C5 (as stated): an unscoped getElementByUid(uid) whose uid is in the
\* snapshot of a page P that is not the focus-map entry of its context fails
\* with the focus-violation error; made right after selectPage(P), the lookup
\* succeeds (the driver still finding the element) and the selected pointer is P.
C5_Original ==
  [][/\ \A P \in DOMAIN mcpPages :
          ( /\ UnscopedLookup(lastOp')
            /\ HasUid(SnapshotOf(mcpPages, P), lastOp'.uid)
            /\ FocusOf(focusedPagePerContext, pageCtx[P]) # P )
          => lastOp'.res = "FocusViolation"
     /\ ( /\ lastOp.op = "selectPage"
          /\ UnscopedLookup(lastOp')
          /\ lastOp.page \in DOMAIN mcpPages
          /\ HasUid(SnapshotOf(mcpPages, lastOp.page), lastOp'.uid)
          /\ lastOp'.res # "StaleElement" )
        => (lastOp'.res = "ok" /\ selectedPage' = lastOp.page)]_vars

\* the lookup that C5 is about: the uid is on a page of a context without a
\* focus-map entry and the selected page is closed
C5_Divergence ==
  /\ UnscopedLookup(lastOp)
  /\ lastOp.res = "SelectedPageClosed"
  /\ \E P \in DOMAIN mcpPages : HasUid(SnapshotOf(mcpPages, P), lastOp.uid)

\* C6: an unscoped getElementByUid that succeeds with a uid of page P leaves
\* the selected pointer at P, and no lookup changes the focus map.
C6_LookupRealigns ==
  [][lastOp'.op = "getElementByUid"
     => /\ focusedPagePerContext' = focusedPagePerContext
        /\ (UnscopedLookup(lastOp') /\ lastOp'.res = "ok")
           => /\ selectedPage' \in DOMAIN mcpPages
              /\ HasUid(SnapshotOf(mcpPages, selectedPage'), lastOp'.uid)
              /\ \A Q \in DOMAIN mcpPages :
                   HasUid(SnapshotOf(mcpPages, Q), lastOp'.uid) => Q = selectedPage']_vars

\* a successful unscoped lookup that found the pointer on a page of another context
C6_Witness ==
  /\ UnscopedLookup(lastOp)
  /\ lastOp.res = "ok"
  /\ lastOp.sel \in DOMAIN pageCtx
  /\ pageCtx[lastOp.sel] # pageCtx[selectedPage]
  /\ HasUid(SnapshotOf(mcpPages, selectedPage), lastOp.uid)

\* C7: a node whose backend key is in two successive snapshots of a page has
\* the same uid in both.
C7_StickyUids ==
  [][\A P \in DOMAIN mcpPages \cap DOMAIN mcpPages' :
       \A i \in DOMAIN SnapshotOf(mcpPages, P).nodes :
         \A j \in DOMAIN SnapshotOf(mcpPages', P).nodes :
           SnapshotOf(mcpPages, P).nodes[i].key = SnapshotOf(mcpPages', P).nodes[j].key
           => SnapshotOf(mcpPages, P).nodes[i].id = SnapshotOf(mcpPages', P).nodes[j].id]_vars

\* a second or later snapshot of a page that kept a node of an earlier one
\* and minted a uid for a new one
C7_Witness ==
  /\ lastOp.op = "createTextSnapshot"
  /\ lastOp.res = "ok"
  /\ lastOp.page \in DOMAIN mcpPages
  /\ LET s == SnapshotOf(mcpPages, lastOp.page)
     IN /\ \E i \in DOMAIN s.nodes : s.nodes[i].id[1] < s.snapshotId
        /\ \E i \in DOMAIN s.nodes : s.nodes[i].id[1] = s.snapshotId

\* every lookup of uid, scoped to a registered page or unscoped, finds no node
ResolvesNowhere(uid) ==
  /\ getAXNodeByUid(mcpPages, uid).page = NoPage
  /\ \A Q \in DOMAIN mcpPages \cup {NoPage}, alive \in BOOLEAN :
       getElementByUid(M, drvPages, pageCtx, uid, Q, alive).res
         \in {"UnknownUid", "NoSnapshot"}

\* C8: the uid of a node that a later snapshot of its page lacked resolves on
\* no page, the snapshot that dropped the node removes its key from the
\* sticky map, and a node that reappears under the key has another uid, minted
\* by the snapshot it reappears in.
C8_RemovedUidsCollected ==
  /\ [](\A r \in retired :
          /\ ResolvesNowhere(r.uid)
          /\ r.page \in DOMAIN mcpPages
             => \A k \in DOMAIN mcpPages[r.page].uniqueBackendNodeIdToMcpId :
                  mcpPages[r.page].uniqueBackendNodeIdToMcpId[k] # r.uid)
  /\ [][/\ \A r \in retired' \ retired :
             r.key \notin DOMAIN mcpPages'[r.page].uniqueBackendNodeIdToMcpId
        /\ \A P \in DOMAIN mcpPages \cap DOMAIN mcpPages' :
             \A j \in DOMAIN SnapshotOf(mcpPages', P).nodes :
               SnapshotOf(mcpPages', P).nodes[j].key \notin KeysOf(SnapshotOf(mcpPages, P))
               => SnapshotOf(mcpPages', P).nodes[j].id[1] = SnapshotOf(mcpPages', P).snapshotId]_vars

\* a node dropped by one snapshot of its page is back in the current one
C8_Witness ==
  \E r \in retired :
    /\ r.page \in DOMAIN mcpPages
    /\ r.key \in KeysOf(SnapshotOf(mcpPages, r.page))
    /\ r.key \in DOMAIN mcpPages[r.page].uniqueBackendNodeIdToMcpId

\* C9: every uid of the current snapshot of a registered page resolves through
\* getAXNodeByUid to its node on that page; the snapshot of a page changes only
\* when a snapshot of that page is taken, and a record goes only when closePage
\* or a registry refresh disposes it, so a snapshot of another page, newPage
\* and selectPage leave what resolves on the page as it was.
C9_UidsResolve ==
  /\ [](\A P \in DOMAIN mcpPages :
          \A i \in DOMAIN SnapshotOf(mcpPages, P).nodes :
            getAXNodeByUid(mcpPages, SnapshotOf(mcpPages, P).nodes[i].id)
              = [page |-> P, key |-> SnapshotOf(mcpPages, P).nodes[i].key])
  /\ [][\A P \in DOMAIN mcpPages :
          /\ (P \in DOMAIN mcpPages' /\ SnapshotOf(mcpPages', P) # SnapshotOf(mcpPages, P))
             => (lastOp'.op = "createTextSnapshot" /\ lastOp'.page = P)
          /\ P \notin DOMAIN mcpPages'
             => \/ lastOp'.op = "closePage" /\ lastOp'.page = P
                \/ lastOp'.op \in {"newPage", "refresh"} /\ IsClosed(drvPages, P)]_vars

\* two pages hold snapshots and another operation has run since they were taken
C9_Witness ==
  /\ lastOp.op \in {"selectPage", "newPage", "createTextSnapshot"}
  /\ \E P, Q \in DOMAIN mcpPages :
       /\ P # Q
       /\ lastOp.page = Q
       /\ SnapshotOf(mcpPages, P) # NoSnapshot
       /\ SnapshotOf(mcpPages, Q) # NoSnapshot
       /\ SnapshotOf(mcpPages, P).snapshotId < SnapshotOf(mcpPages, Q).snapshotId

InHandler(c) == pc[c] \in {"try", "respond"}

\* C10: at most one command handler is between acquiring the gate and
\* releasing it; the gate is locked exactly while one is, and only then are
\* commands waiting.
C10_OneHandlerInGate ==
  /\ Cardinality({c \in Cmds : InHandler(c)}) <= 1
  /\ locked <=> \E c \in Cmds : InHandler(c)
  /\ Range(acquirers) = {c \in Cmds : pc[c] = "waiting"}
  /\ acquirers # <<>> => locked

\* one command is in its handler while another waits for the gate
C10_Witness ==
  \E c, d \in Cmds : c # d /\ pc[c] = "respond" /\ pc[d] = "waiting"

\* number of events ev of command c in the log
Count(c, ev) == Cardinality({i \in DOMAIN log : log[i] = Event(c, ev)})
IsPrefix(s, u) == Len(s) <= Len(u) /\ \A i \in DOMAIN s : s[i] = u[i]

\* C11: a command that holds the gate releases it in the step in which its
\* handler ends (tool error, response built or response failed) and in no
\* other step, so each start is followed by one release; and every command
\* waiting on the gate eventually acquires it when running commands finish.
C11_GateReleased ==
  /\ [][\A c \in Cmds :
          /\ (InHandler(c) /\ pc'[c] = "idle")
             => /\ locked' = (acquirers # <<>>)
                /\ acquirers' = IF acquirers = <<>> THEN <<>> ELSE Tail(acquirers)
                /\ acquirers # <<>> => pc'[Head(acquirers)] = "try"
                /\ Count(c, "finish")' = Count(c, "finish") + 1
          /\ (InHandler(c) /\ pc'[c] # "idle")
             => /\ locked'
                /\ IsPrefix(acquirers, acquirers')
                /\ Count(c, "finish")' = Count(c, "finish")]_vars
  /\ [](\A c \in Cmds :
          Count(c, "finish") = Count(c, "start") - (IF InHandler(c) THEN 1 ELSE 0))
  /\ \A c \in Cmds : (pc[c] = "waiting") ~> (pc[c] = "try")

\* a command that waited holds the gate after the command before it failed
C11_Witness ==
  \E c, d \in Cmds, i, j, k \in DOMAIN log :
    /\ i < j /\ j < k
    /\ log[i] = Event(d, "request")
    /\ log[j] = Event(c, "finish")
    /\ log[k] = Event(d, "start")
    /\ lastOp.res # "ok"
    /\ pc[d] = "try"

\* the commands of the events ev of the log, in order
CmdsOf(ev) ==
  LET s == SelectSeq(log, LAMBDA e : e.ev = ev)
  IN [i \in DOMAIN s |-> s[i].cmd]

\* C12: handlers start in the order in which their commands requested the
\* gate, and a handler starts only after the handler started before it has
\* finished.
C12_FifoOrder ==
  /\ IsPrefix(CmdsOf("start"), CmdsOf("request"))
  /\ \A i, j \in DOMAIN log :
       (i < j /\ log[i].ev = "start" /\ log[j].ev = "start")
       => \E k \in DOMAIN log : i < k /\ k < j /\ log[k] = Event(log[i].cmd, "finish")

\* two commands waited on the gate at the same time and both got it
C12_Witness ==
  \E a, b \in Cmds, i, j, k, l \in DOMAIN log :
    /\ a # b
    /\ i < j /\ j < k /\ k < l
    /\ log[i] = Event(a, "request")
    /\ log[j] = Event(b, "request")
    /\ log[k] = Event(a, "start")
    /\ log[l] = Event(b, "start")

\* every id a record ever got is below #nextPageId
IdsBelowNext == \A p \in DOMAIN mcpPages : mcpPages[p].id < nextPageId

\* C13: after newPage returns page P, with or without a context name, P has
\* a record whose id is greater than every id assigned before the call, the
\* selected page is P and the focus-map entry of P's context is P.
C13_NewPageSelected ==
  /\ [] IdsBelowNext
  /\ [][(lastOp'.op = "newPage" /\ lastOp'.res = "ok")
        => LET P == lastOp'.page
           IN /\ P \notin DOMAIN pageCtx
              /\ P \in DOMAIN mcpPages'
              /\ mcpPages'[P].id >= nextPageId
              /\ \A q \in DOMAIN mcpPages : mcpPages[q].id < mcpPages'[P].id
              /\ lastOp'.id = mcpPages'[P].id
              /\ selectedPage' = P
              /\ FocusOf(focusedPagePerContext', pageCtx'[P]) = P]_vars

\* newPage into an isolated context took the selection from a page of
\* another context, after a page had been opened outside the server
C13_Witness ==
  /\ lastOp.op = "newPage"
  /\ lastOp.res = "ok"
  /\ selectedPage = lastOp.page
  /\ pageCtx[lastOp.page] # DefaultCtx
  /\ lastOp.sel \in DOMAIN pageCtx
  /\ pageCtx[lastOp.sel] # pageCtx[lastOp.page]
  /\ lastOp.id > Cardinality(DOMAIN mcpPages)

\* C14 (as stated): newPage with context name n reuses the context bound to
\* n when there is one and otherwise creates a context and binds it to n; two
\* pages created with the same name are in one browsing context, pages created
\* with different names are in different contexts, and none of them is in the
\* default context.
C14_Original ==
  /\ [](\A p, q \in DOMAIN createdAs :
          (createdAs[p] = createdAs[q]) <=> (pageCtx[p] = pageCtx[q]))
  /\ [](\A p \in DOMAIN createdAs : pageCtx[p] # DefaultCtx)
  /\ [][(lastOp'.op = "newPage" /\ lastOp'.page \in DOMAIN createdAs')
        => LET P == lastOp'.page
               n == createdAs'[P]
           IN /\ P \notin DOMAIN pageCtx
              /\ isolatedContexts'[n] = pageCtx'[P]
              /\ IF n \in DOMAIN isolatedContexts
                 THEN pageCtx'[P] = isolatedContexts[n] /\ drvContexts' = drvContexts
                 ELSE pageCtx'[P] = drvContexts + 1 /\ drvContexts' = drvContexts + 1]_vars

\* newPage(_, n) has returned a page whose context is not the one n is bound to
C14_Divergence ==
  /\ lastOp.op = "newPage"
  /\ lastOp.page \in DOMAIN createdAs
  /\ isolatedContexts[createdAs[lastOp.page]] # pageCtx[lastOp.page]

\* the names bound to context c in the registry iso
NamesOf(iso, c) == {n \in DOMAIN iso : iso[n] = c}

\* C15 (as stated): after a registry refresh every page of the default
\* context reports no context name, every page of another context reports the
\* name bound to its context, a context that had no name gets one newly
\* generated name, and a context that had a name gets no other.
C15_Original ==
  [][lastOp'.op = "refresh"
     => /\ \A p \in Range(pages') :
             IF pageCtx[p] = DefaultCtx
             THEN mcpPages'[p].isolatedContextName = NoName
             ELSE /\ mcpPages'[p].isolatedContextName \in DOMAIN isolatedContexts'
                  /\ isolatedContexts'[mcpPages'[p].isolatedContextName] = pageCtx[p]
        /\ \A c \in 1..drvContexts :
             IF NamesOf(isolatedContexts, c) = {}
             THEN /\ Cardinality(NamesOf(isolatedContexts', c)) = 1
                  /\ NamesOf(isolatedContexts', c) \subseteq Range(GenNames)
                  /\ NamesOf(isolatedContexts', c) \cap DOMAIN isolatedContexts = {}
             ELSE NamesOf(isolatedContexts', c) = NamesOf(isolatedContexts, c)]_vars

\* after a refresh an open page reports a name that is bound to another context
C15_Divergence ==
  /\ lastOp.op = "refresh"
  /\ \E p \in Range(pages) :
       /\ mcpPages[p].isolatedContextName \in DOMAIN isolatedContexts
       /\ isolatedContexts[mcpPages[p].isolatedContextName] # pageCtx[p]
       /\ p \in DOMAIN createdAs

\* C16 (as stated): a registry refresh that directly follows a registry
\* refresh, with no change of the driver between them, leaves the page list,
\* the records with their ids and context names, the name registry and its
\* counter, the focus map and the selected page as they were, and issues no
\* emulated-focus request.
C16_Original ==
  [][(lastOp.op = "refresh" /\ lastOp'.op = "refresh")
     => /\ UNCHANGED <<pages, mcpPages, nextPageId, isolatedContexts,
                       nextIsolatedContextId, focusedPagePerContext, selectedPage>>
        /\ focusReqs' = <<>>]_vars

\* C17: after a registry refresh (stand-alone or inside newPage) the pages
\* with a record are exactly the pages the driver enumerated, only they have
\* a dialog listener of a record, and every focus-map value is one of them.
C17_RecordsMatchDriver ==
  [][lastOp'.op \in {"refresh", "newPage"}
     => /\ DOMAIN mcpPages' = Range(drvPages')
        /\ listeners' = Range(drvPages')
        /\ Range(focusedPagePerContext') \subseteq Range(drvPages')
        /\ \A p \in DOMAIN mcpPages \cap Range(drvPages') :
             mcpPages'[p].id = mcpPages[p].id]_vars

\* a refresh found the selected page gone and gave the newest record to a
\* page opened outside the server
C17_Witness ==
  /\ lastOp.op = "refresh"
  /\ lastOp.sel # NoPage
  /\ lastOp.sel \notin Range(drvPages)
  /\ lastOp.sel \notin Range(pages)
  /\ \E p \in DOMAIN mcpPages : mcpPages[p].id = nextPageId - 1 /\ p \notin DOMAIN createdAs
  /\ focusReqs # <<>>

\* C18: after a registry refresh that returns a non-empty page list the
\* selected page is in the list: it is the page selected before when that page
\* is in the list, and the first listed page otherwise.
C18_RefreshSelectsListed ==
  [][(lastOp'.op = "refresh" /\ pages' # <<>>)
     => /\ selectedPage' \in Range(pages')
        /\ lastOp'.res = "ok"
        /\ IF selectedPage # NoPage /\ selectedPage \in Range(pages')
           THEN selectedPage' = selectedPage
           ELSE selectedPage' = pages'[1]]_vars

\* a refresh that listed two or more pages replaced a vanished selection
C18_Witness ==
  /\ lastOp.op = "refresh"
  /\ Len(pages) >= 2
  /\ lastOp.sel \notin Range(pages)
  /\ selectedPage = pages[1]
  /\ focusReqs # <<>>

\* a refresh kept a selection that is not the first listed page
C18_WitnessKept ==
  /\ lastOp.op = "refresh"
  /\ Len(pages) >= 2
  /\ lastOp.sel = selectedPage
  /\ selectedPage # pages[1]

\* C19: after closePage(id) has succeeded on page P, P is closed, its record
\* is disposed and gone, so that no registered page has the id, and no
\* focus-map entry is P; a selectPage that follows on an open page of P's
\* context succeeds, makes that page the focus-map entry and sends P nothing.
C19_ClosePageCleansUp ==
  /\ [][(lastOp'.op = "closePage" /\ lastOp'.res = "ok")
        => LET P == lastOp'.page
           IN /\ Len(pages) > 1
              /\ P \in DOMAIN mcpPages /\ mcpPages[P].id = lastOp'.id
              /\ IsClosed(drvPages', P)
              /\ P \notin DOMAIN mcpPages'
              /\ P \notin listeners'
              /\ \A q \in DOMAIN mcpPages' : mcpPages'[q].id # lastOp'.id
              /\ P \notin Range(focusedPagePerContext')]_vars
  /\ [][( /\ lastOp.op = "closePage" /\ lastOp.res = "ok"
          /\ lastOp'.op = "selectPage"
          /\ pageCtx[lastOp'.page] = pageCtx[lastOp.page]
          /\ ~IsClosed(drvPages, lastOp'.page) )
        => /\ lastOp'.res = "ok"
           /\ FocusOf(focusedPagePerContext', pageCtx[lastOp.page]) = lastOp'.page
           /\ selectedPage' = lastOp'.page
           /\ \A i \in DOMAIN focusReqs' : focusReqs'[i].page # lastOp.page
           /\ [page |-> lastOp'.page, enabled |-> TRUE] \in Range(focusReqs')]_vars

\* the focused and selected page of an isolated context was closed by
\* closePage and another page of that context has been selected
C19_Witness ==
  /\ lastOp.op = "selectPage"
  /\ lastOp.res = "ok"
  /\ lastOp.sel \in Range(pages)
  /\ lastOp.sel \notin DOMAIN mcpPages
  /\ IsClosed(drvPages, lastOp.sel)
  /\ pageCtx[lastOp.sel] = pageCtx[lastOp.page]
  /\ pageCtx[lastOp.page] # DefaultCtx
  /\ FocusOf(focusedPagePerContext, pageCtx[lastOp.page]) = lastOp.page

\* C20 (as stated): when pages are closed through closePage only, at least
\* one page is open after any sequence of closePage, newPage, selectPage and
\* registry refresh calls.
C20_Original == drvPages # <<>>

\* closePage has closed the only open page
C20_Divergence ==
  /\ lastOp.op = "closePage"
  /\ lastOp.res = "ok"
  /\ drvPages = <<>>
  /\ Len(pages) > 1

C21_WitnessNotFound ==
  /\ lastOp.op = "resolvePageById"
  /\ lastOp.res = "NotFound"
  /\ lastOp.id < nextPageId

\* C22: resolving the selected page never returns a closed page: when the
\* selected page was closed, by closePage or outside the manager, and was not
\* replaced, the call fails with 'The selected page has been closed'.
C22_SelectedNeverClosed ==
  [][(lastOp'.op = "resolvePageById" /\ lastOp'.id = UndefinedId)
     => /\ lastOp'.res = "ok" => ~IsClosed(drvPages', lastOp'.page)
        /\ (selectedPage # NoPage /\ IsClosed(drvPages, selectedPage))
             => lastOp'.res = "SelectedPageClosed" /\ lastOp'.page = NoPage]_vars

\* the selected page was closed outside the manager and the call failed
C22_Witness ==
  /\ lastOp.op = "resolvePageById"
  /\ lastOp.id = UndefinedId
  /\ lastOp.res = "SelectedPageClosed"
  /\ selectedPage \in DOMAIN mcpPages

\* the selected page was closed by closePage and the call failed
C22_WitnessClosePage ==
  /\ lastOp.op = "resolvePageById"
  /\ lastOp.id = UndefinedId
  /\ lastOp.res = "SelectedPageClosed"
  /\ selectedPage \in Range(pages)
  /\ selectedPage \notin DOMAIN mcpPages

\* the pages whose record has a snapshot
WithSnapshot(mp) == {p \in DOMAIN mp : mp[p].textSnapshot # NoSnapshot}

\* C23: getElementByUid(uid, page) looks at the snapshot of that page only:
\* it fails with the no-snapshot error when the page has none and with the
\* unknown-uid error when the uid is not in it, also when another page's
\* snapshot holds the uid; it makes no focus check and leaves the selected
\* pointer as it is.
C23_ScopedLookup ==
  [][(lastOp'.op = "getElementByUid" /\ lastOp'.page # NoPage)
     => LET p == lastOp'.page
            uid == lastOp'.uid
        IN /\ lastOp'.res = "NoSnapshot" <=> p \notin WithSnapshot(mcpPages)
           /\ lastOp'.res = "UnknownUid"
                <=> (p \in WithSnapshot(mcpPages)
                     /\ ~HasUid(mcpPages[p].textSnapshot, uid))
           /\ lastOp'.res \in {"NoSnapshot", "UnknownUid", "ok", "StaleElement"}
           /\ (lastOp'.res = "ok" /\ ~IsClosed(drvPages, p))
                => lastOp'.named = <<mcpPages[p].id>>
           /\ selectedPage' = selectedPage
           /\ UNCHANGED <<mvars, dvars>>]_vars

\* the uid is in another page's snapshot and the scoped lookup refused it
C23_Witness ==
  /\ lastOp.op = "getElementByUid"
  /\ lastOp.page # NoPage
  /\ lastOp.res = "UnknownUid"
  /\ PagesWithUid(mcpPages, lastOp.uid) # {}

\* a scoped lookup succeeded on a page that is neither selected nor the
\* focused page of its context
C23_WitnessNoFocusCheck ==
  /\ lastOp.op = "getElementByUid"
  /\ lastOp.page # NoPage
  /\ lastOp.res = "ok"
  /\ selectedPage # lastOp.page
  /\ MapGet(focusedPagePerContext, pageCtx[lastOp.page], NoPage)
       \notin {NoPage, lastOp.page}

\* C24: getElementByUid(uid) fails with the no-snapshot error exactly when no
\* record has a snapshot, and with the unknown-uid error exactly when a
\* snapshot exists and none holds the uid.
C24_CrossPageErrors ==
  [][(lastOp'.op = "getElementByUid" /\ lastOp'.page = NoPage)
     => /\ lastOp'.res = "NoSnapshot" <=> WithSnapshot(mcpPages) = {}
        /\ lastOp'.res = "UnknownUid"
             <=> (WithSnapshot(mcpPages) # {}
                  /\ PagesWithUid(mcpPages, lastOp'.uid) = {})]_vars

\* a uid that a snapshot held before is unknown to the snapshots that exist
C24_Witness ==
  /\ lastOp.op = "getElementByUid"
  /\ lastOp.page = NoPage
  /\ lastOp.res = "UnknownUid"
  /\ WithSnapshot(mcpPages) # {}
  /\ \E r \in retired : r.uid = lastOp.uid

\* snapshots were taken, their pages are gone, and the lookup finds none
C24_WitnessNoSnapshot ==
  /\ lastOp.op = "getElementByUid"
  /\ lastOp.page = NoPage
  /\ lastOp.res = "NoSnapshot"
  /\ nextSnapshotId > FirstId

IdsOf(mp) == {mp[p].id : p \in DOMAIN mp}
PosIn(s, p) == CHOOSE i \in DOMAIN s : s[i] = p

\* C25: a page gets its id at the refresh that first lists it; ids grow in
\* the order of first observation and are never given twice, also after the
\* page of an id was closed; an open page keeps its id over later refreshes.
\* Every id in use is below #nextPageId and every new id is at or above it,
\* so no id ever assigned comes back.
C25_PageIds ==
  /\ [](\A p \in DOMAIN mcpPages : mcpPages[p].id < nextPageId)
  /\ [][LET new == DOMAIN mcpPages' \ DOMAIN mcpPages
        IN /\ nextPageId' = nextPageId + Cardinality(new)
           /\ \A p \in new :
                /\ p \in Range(drvPages')
                /\ lastOp'.op \in {"refresh", "newPage"}
                /\ mcpPages'[p].id >= nextPageId
                /\ mcpPages'[p].id < nextPageId'
           /\ \A p, q \in new :
                PosIn(drvPages', p) < PosIn(drvPages', q)
                  => mcpPages'[p].id < mcpPages'[q].id
           /\ \A p \in DOMAIN mcpPages \cap DOMAIN mcpPages' :
                mcpPages'[p].id = mcpPages[p].id
           /\ (lastOp'.op \in {"refresh", "newPage"})
                => \A p \in DOMAIN mcpPages :
                     p \in Range(drvPages') => p \in DOMAIN mcpPages']_vars

\* a page made after the page of a smaller id was closed got a fresh id
C25_Witness ==
  /\ lastOp.op = "newPage"
  /\ lastOp.id = nextPageId - 1
  /\ \E k \in (FirstId + 1)..(lastOp.id - 1) : k \notin IdsOf(mcpPages)
  /\ mcpPages[lastOp.page].id = lastOp.id

\* the page an emulate call with argument targetPage works on
EmulateTarget(targetPage) == IF targetPage # NoPage THEN targetPage ELSE selectedPage
\* the call found its page and the record of it
EmulateResolved(targetPage) ==
  /\ targetPage = NoPage => SelectedPageError(selectedPage, drvPages) = "ok"
  /\ EmulateTarget(targetPage) \in DOMAIN mcpPages
\* everything of the records but the emulation settings of page T
RecordsBut(mp, T) ==
  [p \in DOMAIN mp |-> IF p = T THEN [mp[p] EXCEPT !.emulationSettings = NoSettings]
                       ELSE mp[p]]

C26_Divergence ==
  /\ lastOp.op = "emulate"
  /\ lastOp.res = "ok"
  /\ lastOp.named[1].networkConditions \in {"No emulation", "Slow 11G"}
  /\ networkConditions(mcpPages[EmulateTarget(lastOp.page)]) = Null

\* the network multiplier the claim gives for a stored label, in tenths
MultiplierTenths(label) ==
  IF label = "Slow 4G" THEN 25
  ELSE IF label = "Fast 3G" THEN 50
  ELSE IF label = "Slow 3G" THEN 100
  ELSE 10

\* C27 (as stated): after an emulate call that sets or clears the cpu rate or
\* the network condition of a page, the default timeout of that page is 5000
\* times its cpu rate and its navigation timeout is 10000 times the network
\* multiplier of its stored label, whether the page is the selected one or not.
C27_Original ==
  [][( /\ lastOp'.op = "emulate"
       /\ lastOp'.res = "ok"
       /\ EmulateResolved(lastOp'.page)
       /\ \/ lastOp'.named[1].networkConditions # NoName
          \/ lastOp'.named[1].cpuThrottlingRate # NoRate )
     => LET T == EmulateTarget(lastOp'.page)
        IN /\ pageTimeouts'[T].default = 5000 * cpuThrottlingRate(mcpPages'[T])
           /\ pageTimeouts'[T].navigation * 10 =
                10000 * MultiplierTenths(networkConditions(mcpPages'[T]))]_vars

\* emulate has set a cpu rate on a page that is not the selected one, and the
\* default timeout of that page is not 5000 times the rate
C27_Divergence ==
  /\ lastOp.op = "emulate"
  /\ lastOp.res = "ok"
  /\ lastOp.page \notin {NoPage, selectedPage}
  /\ lastOp.named[1].cpuThrottlingRate = 4
  /\ cpuThrottlingRate(mcpPages[lastOp.page]) = 4
  /\ pageTimeouts[lastOp.page].default # 5000 * 4

\* C28 (as stated): newPage(background = true) in the default context makes
\* the new page the selected page and issues no emulated-focus request to the
\* page that was focused in the default context before the call.
C28_Original ==
  [][( /\ lastOp'.op = "newPage"
       /\ lastOp'.named = <<DefaultCtx, TRUE>> )
     => /\ selectedPage' = lastOp'.page
        /\ \A i \in DOMAIN focusReqs' :
             focusReqs'[i].page # FocusOf(focusedPagePerContext, DefaultCtx)]_vars

\* a page made in the background is selected and the page focused before it
\* in the default context was sent a clear-focus request
C28_Divergence ==
  /\ lastOp.op = "newPage"
  /\ lastOp.named = <<DefaultCtx, TRUE>>
  /\ selectedPage = lastOp.page
  /\ \E i \in DOMAIN focusReqs :
       /\ focusReqs[i].page # lastOp.page
       /\ pageCtx[focusReqs[i].page] = DefaultCtx
       /\ ~focusReqs[i].enabled

\* C29: selectPage of an open page completes with the focus entry of the
\* page's context and the selected pointer both at the page, whether the
\* driver accepts the emulated-focus requests or not: a rejected clear-focus
\* or set-focus request is logged only, and a previous holder that is closed
\* is sent no clear-focus request.
C29_SelectPageBestEffort ==
  [][(lastOp'.op = "selectPage" /\ ~IsClosed(drvPages, lastOp'.page))
     => LET p == lastOp'.page
            ctx == pageCtx[p]
            previous == FocusOf(focusedPagePerContext, ctx)
        IN /\ lastOp'.res = "ok"
           /\ FocusOf(focusedPagePerContext', ctx) = p
           /\ selectedPage' = p
           /\ focusReqs'[Len(focusReqs')] = [page |-> p, enabled |-> TRUE]
           /\ (previous # NoPage /\ IsClosed(drvPages, previous))
                => \A i \in DOMAIN focusReqs' : focusReqs'[i].page # previous
           /\ (previous \notin {NoPage, p} /\ ~IsClosed(drvPages, previous))
                => focusReqs' = <<[page |-> previous, enabled |-> FALSE],
                                  [page |-> p, enabled |-> TRUE]>>]_vars

\* both requests were rejected by the driver and the selection completed
C29_Witness ==
  /\ lastOp.op = "selectPage"
  /\ lastOp.res = "ok"
  /\ Len(lastOp.named[2]) = 2
  /\ selectedPage = lastOp.page
  /\ FocusOf(focusedPagePerContext, pageCtx[lastOp.page]) = lastOp.page

\* the previous holder of the context was closed and got no request
C29_WitnessClosedHolder ==
  /\ lastOp.op = "selectPage"
  /\ lastOp.res = "ok"
  /\ lastOp.sel # lastOp.page
  /\ lastOp.sel # NoPage
  /\ pageCtx[lastOp.sel] = pageCtx[lastOp.page]
  /\ IsClosed(drvPages, lastOp.sel)
  /\ lastOp.sel \in DOMAIN mcpPages
  /\ focusReqs = <<[page |-> lastOp.page, enabled |-> TRUE]>>

\* the open pages of context c whose latest emulated-focus request was set-focus
FocusedIn(c) == {p \in Range(drvPages) : pageCtx[p] = c /\ p \in emulatedFocus}
\* the positions of the requests of a kind to page p
ReqsTo(reqs, p, enabled) ==
  {i \in DOMAIN reqs : reqs[i] = [page |-> p, enabled |-> enabled]}

DisposedBy(before, after) ==
  {p \in DOMAIN before : p \notin DOMAIN after \/ after[p].id # before[p].id}

\* C31: disposing a Page Record twice leaves the state that disposing it once
\* leaves, in closePage, in the pruning of a refresh and in the disposal of
\* the session; the disposal of the session never fails; and once a record is
\* disposed no handler of it is attached, so a dialog event of its page does
\* not change the dialog the record holds.
C31_DisposeIdempotent ==
  /\ [][\A p \in DOMAIN mcpPages :
          /\ dispose(dispose(listeners, p), p) = dispose(listeners, p)
          /\ p \in DisposedBy(mcpPages, mcpPages')
             => dispose(listeners', p) = listeners']_vars
  /\ [][lastOp'.op = "dispose"
        => /\ lastOp'.res = "ok"
           /\ disposeContext(M') = [M' EXCEPT !.iso = EmptyMap]]_vars
  /\ [][(lastOp'.op = "dialog" /\ lastOp'.page \notin DOMAIN mcpPages)
        => dialogs' = dialogs]_vars

\* a page whose record was disposed with a dialog captured emits another
\* dialog, and the record keeps the one it had
C31_Witness ==
  /\ lastOp.op = "dialog"
  /\ lastOp.page \notin DOMAIN mcpPages
  /\ lastOp.page \in DOMAIN dialogs
  /\ dialogs[lastOp.page] # lastOp.named[1]

\* a refresh prunes a record that closePage could have disposed as well
C31_WitnessPrune ==
  /\ lastOp.op = "refresh"
  /\ \E p \in DOMAIN pageCtx : p \notin DOMAIN mcpPages /\ p \notin listeners
                               /\ p \in DOMAIN dialogs


\* the page registry, the focus map and the global selected pointer
Registry == <<pages, mcpPages, selectedPage, focusedPagePerContext>>

\* C32: the page registry, the focus map and the global selected pointer
\* change only in a step of the one command that holds the gate; no step
\* taken while the gate is free changes them, whether a command arrives, a
\* focus request settles, or the driver finishes what a timed-out command
\* had started.
C32_ChangesUnderGate ==
  /\ [][~locked => Registry' = Registry]_vars
  /\ [][Registry' # Registry
        => /\ locked
           /\ Cardinality({c \in Cmds : pc[c] \in {"try", "respond"}}) = 1
           /\ lastOp'.op \in {"newPage", "closePage", "selectPage"}]_vars

\* with the gate free, the driver closes the page that a closePage which
\* timed out had asked it to close
C32_Witness ==
  /\ ~locked
  /\ lastOp.op = "externalClose"
  /\ lastOp.page \notin DOMAIN mcpPages
  /\ lastOp.page \in Range(pages)

\* with the gate free, a focus request of a finished command is rejected
C32_WitnessFocus ==
  /\ ~locked
  /\ lastOp.op = "focusRequestSettled"
  /\ lastOp.res = "logged"
  /\ \E i \in DOMAIN log : log[i].ev = "finish"


\* C33: with page-id routing on, a page-scoped command that carries a pageId
\* is handed the page with that id (or fails when no page has it) and not the
\* globally selected page; without a pageId it is handed the selected page;
\* finding the page changes neither the selected pointer nor the focus map.
C33_Original ==
  [][(lastOp'.op = "pageScoped" /\ lastOp'.named = <<TRUE, FALSE>>)
     => /\ selectedPage' = selectedPage
        /\ focusedPagePerContext' = focusedPagePerContext
        /\ lastOp'.id # UndefinedId
             => /\ lastOp'.res = "ok" => IdOf(mcpPages, lastOp'.page) = lastOp'.id
                /\ \A p \in Range(pages) :
                     IdOf(mcpPages, p) = lastOp'.id
                       => lastOp'.res = "ok" /\ lastOp'.page = p
        /\ lastOp'.id = UndefinedId
             => (lastOp'.res = "ok" => lastOp'.page = selectedPage)]_vars

\* a command that carries pageId 0, the id of no page, ran on the selected page
C33_Divergence ==
  /\ lastOp.op = "pageScoped"
  /\ lastOp.named = <<TRUE, FALSE>>
  /\ lastOp.id = 0
  /\ lastOp.res = "ok"
  /\ lastOp.page = selectedPage
  /\ \A p \in DOMAIN mcpPages : mcpPages[p].id # 0

\* the same statement for the ids a page can have (1 and above)
C33_FromOne ==
  [][(lastOp'.op = "pageScoped" /\ lastOp'.named = <<TRUE, FALSE>>
      /\ lastOp'.id # 0)
     => /\ selectedPage' = selectedPage
        /\ focusedPagePerContext' = focusedPagePerContext
        /\ lastOp'.id # UndefinedId
             => /\ lastOp'.res = "ok" => IdOf(mcpPages, lastOp'.page) = lastOp'.id
                /\ \A p \in Range(pages) :
                     IdOf(mcpPages, p) = lastOp'.id
                       => lastOp'.res = "ok" /\ lastOp'.page = p
        /\ lastOp'.id = UndefinedId
             => (lastOp'.res = "ok" => lastOp'.page = selectedPage)]_vars


\* the positions of the snapshot nodes whose key the sticky map did not hold
MintedAt(nodes, sticky) == {i \in DOMAIN nodes : nodes[i].key \notin DOMAIN sticky}

\* C34: the session's snapshot counter starts at 1 and goes up by one in every
\* capture that returns a root and in no other step; a node of the capture
\* whose key had no sticky uid gets the uid snapshotId_ordinal, where
\* snapshotId is the counter before the capture and ordinal is the number of
\* such nodes before it in pre-order, from 0.
C34_UidForm ==
  /\ nextSnapshotId = FirstId
  /\ [][nextSnapshotId' =
          IF lastOp'.op = "createTextSnapshot" /\ lastOp'.res = "ok"
          THEN nextSnapshotId + 1 ELSE nextSnapshotId]_vars
  /\ [][(lastOp'.op = "createTextSnapshot" /\ lastOp'.res = "ok")
        => LET P == lastOp'.page
               nodes == mcpPages'[P].textSnapshot.nodes
               fresh == MintedAt(nodes, mcpPages[P].uniqueBackendNodeIdToMcpId)
           IN /\ mcpPages'[P].textSnapshot.snapshotId = nextSnapshotId
              /\ \A i \in fresh :
                   nodes[i].id = <<nextSnapshotId,
                                   Cardinality({j \in fresh : j < i})>>]_vars

\* the second snapshot of the session has a node that kept its uid of the
\* first, and after it one new node, which is 2_0
C34_Witness ==
  /\ lastOp.op = "createTextSnapshot"
  /\ lastOp.res = "ok"
  /\ nextSnapshotId = FirstId + 2
  /\ LET nodes == mcpPages[lastOp.page].textSnapshot.nodes
     IN /\ Len(nodes) = 2
        /\ nodes[1].id = <<FirstId, 0>>
        /\ nodes[2].id = <<FirstId + 1, 0>>


\* C35: a capture that returns no root changes nothing: the records (with the
\* page's snapshot and its sticky key-to-uid map) and the session's snapshot
\* counter keep their values, so getAXNodeByUid answers for every uid as before.
C35_NoRootNoOp ==
  [][(lastOp'.op = "createTextSnapshot" /\ lastOp'.res = "noRoot")
     => /\ mcpPages' = mcpPages
        /\ nextSnapshotId' = nextSnapshotId
        /\ \A uid \in UidArgs :
             getAXNodeByUid(mcpPages', uid) = getAXNodeByUid(mcpPages, uid)]_vars

\* a capture without a root on a page that has a snapshot, whose uid resolves
C35_Witness ==
  /\ lastOp.op = "createTextSnapshot"
  /\ lastOp.res = "noRoot"
  /\ mcpPages[lastOp.page].textSnapshot # NoSnapshot
  /\ getAXNodeByUid(mcpPages, <<FirstId, 0>>).page = lastOp.page


\* the (page, key, uid) triples of the snapshots that exist
Held(mp) ==
  {[page |-> p, key |-> mp[p].textSnapshot.nodes[i].key,
    uid |-> mp[p].textSnapshot.nodes[i].id] :
     <<p, i>> \in {<<q, j>> \in (DOMAIN mp) \X (1..MaxKeys) :
                     j \in DOMAIN mp[q].textSnapshot.nodes}}

\* C36: with keys distinct within a page, a uid belongs to one (page, key)
\* pair for the whole session: no two triples ever held by a snapshot share a
\* uid and differ in page or key; the nodes of one snapshot have distinct
\* uids; a uid that a snapshot dropped is never given out again; and the
\* pages whose snapshot holds a given uid are at most one.
C36_UidsUnique ==
  /\ [](\A a, b \in minted : a.uid = b.uid => a.page = b.page /\ a.key = b.key)
  /\ [](Held(mcpPages) \subseteq minted)
  /\ [](\A p \in DOMAIN mcpPages :
          \A i, j \in DOMAIN mcpPages[p].textSnapshot.nodes :
            mcpPages[p].textSnapshot.nodes[i].id = mcpPages[p].textSnapshot.nodes[j].id
              => i = j)
  /\ [][\A r \in retired : \A h \in Held(mcpPages') \ Held(mcpPages) : h.uid # r.uid]_vars
  /\ [](\A uid \in UidArgs : Cardinality(PagesWithUid(mcpPages, uid)) <= 1)

\* two pages have snapshots with the same key, under different uids
C36_Witness ==
  \E p, q \in DOMAIN mcpPages :
    /\ p # q
    /\ \E h, g \in Held(mcpPages) :
         h.page = p /\ g.page = q /\ h.key = g.key /\ h.uid # g.uid

\* the key of a dropped uid is back in the snapshot of its page under a uid
\* minted later
C36_WitnessBack ==
  \E r \in retired : \E h \in Held(mcpPages) :
    h.page = r.page /\ h.key = r.key /\ h.uid[1] > r.uid[1]


\* C37: between commands, a selected page that is open and has a record is
\* the focus-map entry of its browser context.
C37_SelectedIsFocusHolder ==
  (/\ \A c \in Cmds : pc[c] = "idle"
   /\ selectedPage \in Range(drvPages)
   /\ selectedPage \in DOMAIN mcpPages)
  => FocusOf(focusedPagePerContext, pageCtx[selectedPage]) = selectedPage


\* the selected page vanished and a refresh selected another page, which is
\* open, has a record and holds the focus of its context, beside the holder
\* of another context
C37_Witness ==
  /\ lastOp.op = "refresh"
  /\ lastOp.sel # selectedPage
  /\ \A c \in Cmds : pc[c] = "idle"
  /\ selectedPage \in Range(drvPages)
  /\ selectedPage \in DOMAIN mcpPages
  /\ FocusOf(focusedPagePerContext, pageCtx[selectedPage]) = selectedPage
  /\ \E c \in DOMAIN focusedPagePerContext : c # pageCtx[selectedPage]


\* every name bound before the step is bound to the same context after it
BindingsKept ==
  \A n \in DOMAIN isolatedContexts :
    n \in DOMAIN isolatedContexts' /\ isolatedContexts'[n] = isolatedContexts[n]

\* after a refresh the listed pages of a context that had a name report it
ReportsKept ==
  lastOp'.op = "refresh"
  => \A p \in Range(pages') : \A n \in DOMAIN isolatedContexts :
       isolatedContexts[n] = pageCtx[p] => mcpPages'[p].isolatedContextName = n

\* no context has two names, and listed pages of two contexts report
\* different names
Exclusive ==
  /\ \A n1, n2 \in DOMAIN isolatedContexts :
       isolatedContexts[n1] = isolatedContexts[n2] => n1 = n2
  /\ \A p, q \in Range(pages) \cap DOMAIN mcpPages :
       (pageCtx[p] # pageCtx[q] /\ mcpPages[p].isolatedContextName # NoName)
       => mcpPages[p].isolatedContextName # mcpPages[q].isolatedContextName

\* C38 (as stated): for every name the agent may give, the name of a browsing
\* context is permanent and exclusive: a bound name keeps its context in
\* every step, no context has two names and no two contexts report one name,
\* and at every refresh the pages of a named context report its name.
C38_Original ==
  /\ []Exclusive
  /\ [][BindingsKept /\ ReportsKept]_vars

\* the name the agent gave to a page's context now denotes another context
C38_Divergence ==
  \E p \in DOMAIN createdAs :
    /\ p \in Range(pages)
    /\ createdAs[p] \in DOMAIN isolatedContexts
    /\ isolatedContexts[createdAs[p]] # pageCtx[p]
    /\ lastOp.op # "newPage"

\* the same statement while the agent has given no name of the form that
\* auto-discovery generates
C38_OtherNames ==
  /\ []((\A p \in DOMAIN createdAs : createdAs[p] \notin Range(GenNames)) => Exclusive)
  /\ [][(\A p \in DOMAIN createdAs' : createdAs'[p] \notin Range(GenNames))
        => BindingsKept /\ ReportsKept]_vars


\* the focus map f with the entry of context c left out
Except(f, c) == [x \in DOMAIN f \ {c} |-> f[x]]

\* C39 (as stated): selectPage(page) either completes with the focus-map
\* entry of the page's context and the selected pointer both at page, or fails
\* and leaves the focus map and the selected pointer as they were.
C39_Original ==
  [][lastOp'.op = "selectPage"
     => IF lastOp'.res = "ok"
        THEN /\ FocusOf(focusedPagePerContext', pageCtx[lastOp'.page]) = lastOp'.page
             /\ selectedPage' = lastOp'.page
        ELSE /\ focusedPagePerContext' = focusedPagePerContext
             /\ selectedPage' = selectedPage]_vars

\* C39 (amended): selectPage(page) sets the focus-map entry of the page's
\* context and the selected pointer to page whether it completes or fails,
\* and changes no other entry; it fails exactly when page is closed or has no
\* record, and then it has sent the clear-focus request to an open previous
\* holder but sends no set-focus request and sets no timeouts.
C39_SelectPageNotAtomic ==
  [][lastOp'.op = "selectPage"
     => LET P == lastOp'.page
            c == pageCtx[P]
            old == FocusOf(focusedPagePerContext, c)
        IN /\ FocusOf(focusedPagePerContext', c) = P
           /\ selectedPage' = P
           /\ Except(focusedPagePerContext', c) = Except(focusedPagePerContext, c)
           /\ lastOp'.res = "ok" <=> (P \in Range(drvPages) /\ P \in DOMAIN mcpPages)
           /\ (old # NoPage /\ old # P /\ old \in Range(drvPages))
              => ReqsTo(focusReqs', old, FALSE) # {}
           /\ lastOp'.res # "ok"
              => /\ ReqsTo(focusReqs', P, TRUE) = {}
                 /\ pageTimeouts' = pageTimeouts]_vars

\* selectPage failed on a page closed outside the server, after it moved the
\* entry and the pointer to it and asked the previous holder to drop focus
C39_Witness ==
  /\ lastOp.op = "selectPage"
  /\ lastOp.res = "SelectedPageClosed"
  /\ lastOp.sel # lastOp.page
  /\ selectedPage = lastOp.page
  /\ FocusOf(focusedPagePerContext, pageCtx[lastOp.page]) = lastOp.page
  /\ \E i \in DOMAIN focusReqs : ~focusReqs[i].enabled


\* the contexts whose focus-map entry in f is a page that is open
OpenHolders(f, open) == {c \in DOMAIN f : f[c] \in Range(open)}

\* C40 (as stated): a registry refresh never replaces the focus-map entry of
\* a context whose focused page is still open, and sends that page no
\* clear-focus request: it only removes the entries of vanished pages and
\* adds an entry for a context that has none.
C40_Original ==
  [][lastOp'.op = "refresh"
     => /\ \A c \in OpenHolders(focusedPagePerContext, drvPages) :
             /\ FocusOf(focusedPagePerContext', c) = focusedPagePerContext[c]
             /\ ReqsTo(focusReqs', focusedPagePerContext[c], FALSE) = {}
        /\ \A c \in DOMAIN focusedPagePerContext \ OpenHolders(focusedPagePerContext, drvPages) :
             FocusOf(focusedPagePerContext', c) # focusedPagePerContext[c]]_vars

\* the refresh selects the first listed page: no page is selected, or the
\* selected page is not listed any more
FallsBack == (selectedPage = NoPage \/ selectedPage \notin Range(drvPages))
             /\ drvPages # <<>>

\* C40 (amended): a registry refresh removes the focus-map entries of
\* vanished pages and keeps the entry of every context whose focused page is
\* open, with one exception: when the selected page is unset or no longer
\* listed, the first listed page is selected, so the entry of its context
\* becomes that page, whether the context had no entry, a vanished holder or
\* an open one, and an open holder it replaces is sent a clear-focus request.
C40_RefreshFallbackRefocuses ==
  [][lastOp'.op = "refresh"
     => LET first == drvPages[1]
            fc == pageCtx[first]
        IN /\ \A c \in OpenHolders(focusedPagePerContext, drvPages) :
                (FallsBack /\ c = fc)
                \/ /\ FocusOf(focusedPagePerContext', c) = focusedPagePerContext[c]
                   /\ ReqsTo(focusReqs', focusedPagePerContext[c], FALSE) = {}
           /\ \A c \in DOMAIN focusedPagePerContext' :
                (FallsBack /\ c = fc)
                \/ c \in OpenHolders(focusedPagePerContext, drvPages)
           /\ FallsBack
              => /\ FocusOf(focusedPagePerContext', fc) = first
                 /\ selectedPage' = first
                 /\ (fc \in OpenHolders(focusedPagePerContext, drvPages)
                     /\ focusedPagePerContext[fc] # first)
                    => ReqsTo(focusReqs', focusedPagePerContext[fc], FALSE) # {}]_vars

\* the selected page, of one context, vanished, and the refresh replaced the
\* open focus holder of another context and asked it to drop focus
C40_Witness ==
  /\ lastOp.op = "refresh"
  /\ lastOp.sel # NoPage
  /\ selectedPage # lastOp.sel
  /\ pageCtx[lastOp.sel] # pageCtx[selectedPage]
  /\ \E i \in DOMAIN focusReqs :
       /\ ~focusReqs[i].enabled
       /\ focusReqs[i].page \in Range(drvPages)
       /\ pageCtx[focusReqs[i].page] = pageCtx[selectedPage]

====
